---- MODULE Spec2Model ----
(***************************************************************************)
(* AgenticQuant: the Task Executor (BaseAgent.execute_task), the Code      *)
(* Sandbox (PythonExecutionTool) and the Orchestration Controller          *)
(* (WorkflowEngine.execute_workflow) as state machines.                    *)
(*                                                                         *)
(* The specifications share the module, one per component:                 *)
(*   SpecAgent     one execute_task call, one action per loop iteration    *)
(*   SpecAgentOfType  the same, for an agent of any of the seven types     *)
(*   SpecAgentListed  the same, with up to three tool calls a response     *)
(*   SpecSandbox   the execute calls of one PythonExecutionTool            *)
(*   SpecWorkflow  one execute_workflow run                                *)
(*   SpecHost      the runs one host schedules and their directories       *)
(*   SpecParser    the calls of _parse_decision_response                   *)
(*   SpecPlanFile  a plan written to plan.json and read back               *)
(*   SpecRefinement  one strategy_refinement dispatch and its sub-loop     *)
(*   SpecLLM       one chat_completion call on the siliconflow path        *)
(*   SpecDispatch  the first executor dispatch of a run with its task      *)
(* A component that a specification does not exercise stays in its idle    *)
(* initial state.                                                          *)
(***************************************************************************)
EXTENDS Integers, Sequences, FiniteSets, TLC

VARIABLES
    \* ---- BaseAgent.execute_task ----
    pc,              \* "idle" | "loop" | "done": position of execute_task
    iteration,       \* the for-loop variable: index of the next iteration
    task_finished,   \* self._task_finished
    status,          \* self.state.status
    thoughts,        \* local list thoughts
    actions,         \* local list actions (ToolCall objects)
    observations,    \* local list observations
    messages,        \* local list messages
    ret,             \* the dict execute_task returned (NoRet before)
    llm_calls,       \* history: number of chat_completion calls of this task
    tool_log,        \* history: tools whose execute_with_result was awaited
    last_resp,       \* history: the backend response of the last iteration
    prev,            \* history: the locals as the last iteration found them
    varied,          \* history: iterations whose response was not the plain one
    utcnow,          \* the latest reading of datetime.utcnow().timestamp()
    call_ids,        \* call_ids[k] is the call_id of the ToolCall actions[k]
    stalls,          \* history: clock readings equal to the one before
    agent_type,      \* self.agent_type
    offered,         \* history: the names of the tool definitions passed to
                     \* the latest chat_completion call, in order
    \* ---- PythonExecutionTool.execute ----
    sb_pc,           \* "idle" | "loop" | "running" | "returned" | "raised"
    attempt_idx,     \* the for-loop variable of execute
    sb_messages,     \* local list messages of execute (the generation dialog)
    attempt_summaries, \* local list attempt_summaries
    last_execution,  \* local last_execution (NoExecution for None)
    generation,      \* local generation of the attempt under way
    proc,            \* the subprocess: "none" | "running" | "exited"
    script_file,     \* whether the temporary script file exists
    ws_files,        \* names of the files in the workspace root
    sb_ret,          \* what execute returned, or the exception it raised
    gen_calls,       \* history: number of _generate_code calls
    launches,        \* history: number of subprocesses started
    proc_log,        \* history: how each awaited subprocess ended
    timeouts,        \* history: number of subprocesses that timed out
    sb_varied,       \* history: failed attempts that were not the plain one
    abandoned,       \* subprocesses of earlier execute calls still running
    \* ---- WorkflowEngine.execute_workflow ----
    wf_pc,           \* "idle" | "deciding" | "returned" | "raised"
    request_type,    \* what _determine_request_type makes of user_request
    wf_status,       \* context.status
    plan,            \* local plan (NoPlan for None)
    plan_step_status, \* local dict plan_step_status
    last_action_summary, \* local last_action_summary
    strategy_iterations_completed, \* local of the same name
    final_report_created, \* local of the same name
    journal_step_counter, \* local of the same name
    decision_index,  \* the for-loop variable: index of the next decision
    finished,        \* local finished
    journal,         \* the entries of main_journal.md, oldest first
    attempts,        \* local attempts of the decide_next_step call under way
    asks,            \* history: the prompts of the latest decide_next_step
                     \* call and what became of each reply
    report_file,     \* whether final_report.md exists in the workspace
    writer_result,   \* history: the dict the writer's execute_task returned
                     \* in the dispatch just made (NoRet: not a writer's)
    wf_error,        \* the message of the exception execute_workflow raised
    wf_varied,       \* history: decisions that were not the plain one
    \* ---- the host (main.py) and WORKSPACE_ROOT ----
    now,             \* datetime.now(), in whole seconds
    runs,            \* the execute_workflow calls the host has scheduled
    disk,            \* WORKSPACE_ROOT: the session directories by name
    \* ---- OrchestratorAgent._parse_decision_response ----
    parses,          \* history: each response parsed and the dict returned
    frame,           \* the locals of the latest call as it returned
    \* ---- plan.json ----
    context_plan,    \* context.plan: the WorkflowPlan of the planner dispatch
    plan_file,       \* the content of plan.json in the workspace
    session_plan,    \* what get_session_status loaded from plan.json
    \* ---- the strategy_refinement handler ----
    refine_pc,       \* "idle" | the agent awaited | "returned"
    refine_iteration, \* the for-loop variable of _execute_strategy_refinement
    feedback,        \* local feedback (NoKey for None)
    refine_calls,    \* history: the agent calls awaited, in order
    refine_journal,  \* what the dispatch appended to main_journal.md
    refine_step,     \* plan_step of the decision, as the controller reads it
    refine_counter,  \* journal_step_counter
    refine_status,   \* plan_step_status
    \* ---- LLMClient._siliconflow_completion ----
    sf_pc,           \* "idle" | "awaiting" | "recursing" | "returned" | "raised"
    sf_model,        \* self.model
    sf_tools,        \* whether the argument tools is a non-empty list
    sf_messages,     \* the argument messages: the role of each
    sf_payload,      \* the payload of the request under way
    http_requests,   \* history: HTTP requests of this chat_completion call
    rejects_tools,   \* the backend answers 400 to every request with tools
    sf_result        \* what the call returned or raised

agentVars == <<pc, iteration, task_finished, status, thoughts, actions,
               observations, messages, ret, llm_calls, tool_log, last_resp,
               prev, varied, utcnow, call_ids, stalls, agent_type, offered>>

sandboxVars == <<sb_pc, attempt_idx, sb_messages, attempt_summaries,
                 last_execution, generation, proc, script_file, ws_files,
                 sb_ret, gen_calls, launches, proc_log, timeouts, sb_varied,
                 abandoned>>

workflowVars == <<wf_pc, request_type, wf_status, plan, plan_step_status,
                  last_action_summary, strategy_iterations_completed,
                  final_report_created, journal_step_counter, decision_index,
                  finished, journal, attempts, asks, report_file,
                  writer_result, wf_error,
                  wf_varied>>

hostVars == <<now, runs, disk>>

parserVars == <<parses, frame>>

planFileVars == <<context_plan, plan_file, session_plan>>

refinementVars == <<refine_pc, refine_iteration, feedback, refine_calls,
                    refine_journal, refine_step, refine_counter,
                    refine_status>>

llmVars == <<sf_pc, sf_model, sf_tools, sf_messages, sf_payload,
             http_requests, rejects_tools, sf_result>>

vars == <<agentVars, sandboxVars, workflowVars, hostVars, parserVars,
          planFileVars, refinementVars, llmVars>>

(***************************************************************************)
(* Bounds of the model                                                     *)
(***************************************************************************)
\* most tool calls one backend response carries
MaxCalls == 2
\* most iterations of one task whose backend response differs from the plain
\* one (a thought and one successful tool call)
MaxVaried == 1
\* most readings of the clock, in one task, that equal the reading before
MaxStalls == 1
\* most failed attempts of the sandbox that differ from the plain one (a
\* python-fenced reply whose code raises inside the wrapper script), further
\* calls of execute counted with them
MaxVariedAttempts == 2
\* most decisions of one workflow run that differ from the plain one (an
\* executor dispatch with no declared step that succeeds)
MaxVariedDecisions == 2

\* most tool calls of a response in the specification SpecAgentListed
MaxListed == 3
\* most HTTP requests of one chat_completion call that are counted
MaxRequests == 3
\* most messages a caller passes to chat_completion
MaxMessages == 2
\* most execute_workflow calls the host schedules
MaxRuns == 2
\* most seconds that pass while the host is watched
MaxClock == 1
\* most files one run writes after its journal header
MaxWrites == 2
\* most calls of _parse_decision_response that are followed
MaxParses == 3
\* most steps of a plan that is written to plan.json
MaxSteps == 2

(***************************************************************************)
(* Program constants                                                       *)
(***************************************************************************)
\* BaseAgent.__init__: self.max_iterations = 10
max_iterations == 10
\* PythonExecutionTool.__init__: max_attempts: int = 10
max_attempts == 10
\* execute_workflow: max_decisions = 40
max_decisions == 40
\* config.MAX_REFINEMENT_ITERATIONS
MAX_REFINEMENT_ITERATIONS == 3

\* a key the returned dict does not carry ("result", "error"); an absent
\* "finished_early" is FALSE, which is how its readers see it (dict.get)
NoKey == "<absent>"
NoRet == [returned |-> FALSE]

NoExecution == [present |-> FALSE]
NoGeneration == [raised |-> FALSE, error |-> NoKey, code |-> NoKey,
                 raw_response |-> NoKey]

(***************************************************************************)
(* Tool registry                                                           *)
(***************************************************************************)
\* ToolRegistry._initialize_tools: the keys of self.tools
RegisteredTools ==
    {"web_search", "file_saver", "file_system_scanner", "find_in_file",
     "finance_data_downloader", "python_execution",
     "regression_based_strategy_evaluation"}

\* ToolRegistry.get_tool: the tool, or ValueError for a name not registered
get_tool(name) ==
    IF name \notin RegisteredTools
    THEN [raised |-> TRUE, tool |-> NoKey]
    ELSE [raised |-> FALSE, tool |-> name]

\* BaseTool.execute_with_result: run is what the tool's execute does
\* ("returns" | "raises"); the ToolResult's status is the result.  An
\* exception of execute is caught and becomes status "error".
\* (mutant: the exception of execute is not caught)
execute_with_result_propagates(run) ==
    IF run = "returns" THEN "success" ELSE "raise"
execute_with_result(run) ==
    IF run = "returns" THEN "success" ELSE "error"

\* the agent types the engine constructs agents of
AgentTypes ==
    {"orchestrator", "planner", "executor", "strategy_synthesizer",
     "strategy_evaluator", "judger", "writer"}

\* ToolRegistry.get_tools_for_agent: the tool_mapping of lines 75-94
get_tools_for_agent(type) ==
    CASE type = "orchestrator" -> <<"file_system_scanner">>
      [] type = "planner" -> <<>>
      [] type = "executor" ->
            <<"web_search", "file_saver", "find_in_file",
              "finance_data_downloader", "python_execution",
              "regression_based_strategy_evaluation">>
      [] type = "strategy_synthesizer" -> <<"file_saver">>
      [] type = "strategy_evaluator" ->
            <<"python_execution", "regression_based_strategy_evaluation",
              "file_saver">>
      [] type = "judger" -> <<"find_in_file">>
      [] type = "writer" -> <<"find_in_file", "file_saver">>
      [] OTHER -> <<>>

\* get_available_tools of the agent class of each type: ExecutorAgent and
\* StrategyEvaluatorAgent ask the registry, the others return a list of
\* their own
get_available_tools(type) ==
    CASE type = "orchestrator" -> <<"file_system_scanner">>
      [] type = "planner" -> <<>>
      [] type = "executor" -> get_tools_for_agent("executor")
      [] type = "strategy_synthesizer" -> <<"file_saver">>
      [] type = "strategy_evaluator" ->
            get_tools_for_agent("strategy_evaluator")
      [] type = "judger" -> <<"find_in_file", "file_saver">>
      [] type = "writer" -> <<"file_saver">>

IsRegistered(name) == name \in RegisteredTools

\* ToolRegistry.get_tool_definitions: the definitions of the names that are
\* registered, in the order given
get_tool_definitions(tool_names) == SelectSeq(tool_names, IsRegistered)

\* execute_task, lines 146-171: the definitions passed to chat_completion
OfferedTools(type) ==
    Append(get_tool_definitions(get_available_tools(type)), "finish")

(***************************************************************************)
(* Backend responses (LLMClient.chat_completion)                           *)
(***************************************************************************)
\* One requested tool call: its name, the shape of its arguments
\*   "obj"      a JSON object without a "message" key
\*   "obj_msg"  a JSON object with "message": "M"
\*   "bad"      not a JSON object (null, a list): ToolCall rejects it
\* and what the tool's execute does when it is run.
ToolCallData ==
    {[name |-> "finish", args |-> a, run |-> "returns"] :
        a \in {"obj", "obj_msg", "bad"}}
    \cup {[name |-> "web_search", args |-> "obj", run |-> r] :
        r \in {"returns", "raises"}}
    \cup {[name |-> "web_search", args |-> "bad", run |-> "returns"],
          [name |-> "bogus", args |-> "obj", run |-> "returns"]}

RECURSIVE SeqsUpTo(_, _)
SeqsUpTo(S, n) ==
    IF n = 0 THEN {<<>>}
    ELSE LET shorter == SeqsUpTo(S, n - 1)
         IN  shorter \cup {Append(s, x) : s \in {t \in shorter : Len(t) = n - 1}, x \in S}

\* the plain tool call: a registered tool, object arguments, it succeeds
PlainCall == [name |-> "web_search", args |-> "obj", run |-> "returns"]

\* a tool call at which the loop body leaves execute_task
EndsTask(tcd) == tcd.name \in {"finish", "bogus"} \/ tcd.args = "bad"

\* The tool-call lists a response may carry: up to MaxCalls calls; the calls
\* listed after one that ends the task are never looked at, and are drawn
\* from two only (the plain call and a finish call).
ToolCallLists ==
    {tcs \in SeqsUpTo(ToolCallData, MaxCalls) :
        \A i \in 1..Len(tcs) : \A j \in 1..Len(tcs) :
            (i < j /\ EndsTask(tcs[i])) =>
                tcs[j] \in {PlainCall,
                            [name |-> "finish", args |-> "obj", run |-> "returns"]}}

\* what chat_completion can hand back: a response dict, or an exception
Responses ==
    {[content |-> c, tool_calls |-> tcs, raised |-> FALSE] :
        c \in {"", "T"}, tcs \in ToolCallLists}
    \cup {[content |-> "", tool_calls |-> <<>>, raised |-> TRUE]}

\* the plain response: a thought and one tool call that succeeds
PlainResponse ==
    [content |-> "T", tool_calls |-> <<PlainCall>>, raised |-> FALSE]

HasFinish(resp) ==
    \E i \in 1..Len(resp.tool_calls) : resp.tool_calls[i].name = "finish"

(***************************************************************************)
(* BaseAgent.execute_task                                                  *)
(***************************************************************************)
InitialMessages ==
    <<[role |-> "system", content |-> "system_prompt_with_time"],
      [role |-> "user", content |-> "task"]>>

\* the dict of lines 134-142 (the loop-top check of self._task_finished)
FlagReturn(th, ac, ob, it) ==
    [returned |-> TRUE, success |-> TRUE,
     result |-> IF th # <<>> THEN th[Len(th)] ELSE "Task completed via finish()",
     error |-> NoKey, thoughts |-> th, actions |-> ac, observations |-> ob,
     iterations |-> it, finished_early |-> TRUE]

\* the dict of lines 210-218 (a finish tool call)
\* (mutant: the finished_early key is left out, as in the other returns)
FinishReturn_noflag(final_message, thought, th, ac, ob, it) ==
    [returned |-> TRUE, success |-> TRUE,
     result |-> IF final_message # "" THEN final_message
                ELSE IF thought # "" THEN thought ELSE "Task completed",
     error |-> NoKey, thoughts |-> th, actions |-> ac, observations |-> ob,
     iterations |-> it + 1, finished_early |-> FALSE]
FinishReturn(final_message, thought, th, ac, ob, it) ==
    [returned |-> TRUE, success |-> TRUE,
     result |-> IF final_message # "" THEN final_message
                ELSE IF thought # "" THEN thought ELSE "Task completed",
     error |-> NoKey, thoughts |-> th, actions |-> ac, observations |-> ob,
     iterations |-> it + 1, finished_early |-> TRUE]

\* the dict of lines 261-268 (a response without tool calls)
\* (mutant: the last recorded thought is returned, as the loop-top return does)
NoToolCallsReturn_lastthought(thought, th, ac, ob, it) ==
    [returned |-> TRUE, success |-> TRUE,
     result |-> IF th # <<>> THEN th[Len(th)] ELSE "",
     error |-> NoKey, thoughts |-> th, actions |-> ac, observations |-> ob,
     iterations |-> it + 1, finished_early |-> FALSE]
NoToolCallsReturn(thought, th, ac, ob, it) ==
    [returned |-> TRUE, success |-> TRUE, result |-> thought,
     error |-> NoKey, thoughts |-> th, actions |-> ac, observations |-> ob,
     iterations |-> it + 1, finished_early |-> FALSE]

\* the dict of lines 272-279 (the except clause)
\* (mutant: the partial trace is not handed back)
ExceptReturn_droptrace(e, th, ac, ob, it) ==
    [returned |-> TRUE, success |-> FALSE, result |-> NoKey,
     error |-> e, thoughts |-> <<>>, actions |-> <<>>, observations |-> <<>>,
     iterations |-> it + 1, finished_early |-> FALSE]
ExceptReturn(e, th, ac, ob, it) ==
    [returned |-> TRUE, success |-> FALSE, result |-> NoKey,
     error |-> e, thoughts |-> th, actions |-> ac, observations |-> ob,
     iterations |-> it + 1, finished_early |-> FALSE]

\* the dict of lines 283-290 (the loop ran out)
\* (mutant: running out of iterations is reported as a failure)
MaxIterationsReturn_failure(th, ac, ob) ==
    [returned |-> TRUE, success |-> FALSE, result |-> "Max iterations reached",
     error |-> NoKey, thoughts |-> th, actions |-> ac, observations |-> ob,
     iterations |-> max_iterations, finished_early |-> FALSE]
MaxIterationsReturn(th, ac, ob) ==
    [returned |-> TRUE, success |-> TRUE, result |-> "Max iterations reached",
     error |-> NoKey, thoughts |-> th, actions |-> ac, observations |-> ob,
     iterations |-> max_iterations, finished_early |-> FALSE]

\* create_tool_call: the ToolCall appended to actions
ToolCallOf(tcd) == [tool_name |-> tcd.name, arguments |-> tcd.args]

\* ToolCall.call_id, the default_factory of line 56 of protocol.py:
\* f"call_{datetime.utcnow().timestamp()}", the text of the clock reading
CallId(reading) == <<"call_", reading>>

\* the clock read for a new ToolCall: moved says whether its value differs
\* from the reading before (a clock of coarse resolution, or one that was
\* set back, gives the same value again)
ReadClock(last, moved) == IF moved THEN last + 1 ELSE last

\* the locals after create_tool_call made the ToolCall of tcd
Created(st, tcd) ==
    LET reading == ReadClock(st.utcnow, Head(st.reads))
    IN  [st EXCEPT !.actions = Append(@, ToolCallOf(tcd)),
                   !.call_ids = Append(@, CallId(reading)),
                   !.utcnow = reading,
                   !.stalled = IF Head(st.reads) THEN @ ELSE @ + 1,
                   !.reads = Tail(@)]

\* lines 238-241: the observation string
Observation(name, result_status) ==
    IF result_status = "success"
    THEN "Tool '" \o name \o "' succeeded"
    ELSE "Tool '" \o name \o "' failed"

\* The body of the loop over response["tool_calls"] for one tool
\* call (lines 188-254).  st carries the locals; st.out says how the body
\* left: "next" (go on with the next tool call), "finish" (the return of line
\* 210), "except" (an exception reached the except clause of line 270).
HandleToolCall(st, tcd, thought) ==
    IF tcd.name = "finish"
    THEN \* lines 194-218
         IF tcd.args = "bad"
         THEN \* create_tool_call raises: ToolCall.arguments must be a dict
              [st EXCEPT !.task_finished = TRUE, !.out = "except",
                         !.error = "ValidationError"]
         ELSE LET final_message == IF tcd.args = "obj_msg" THEN "M" ELSE thought
              IN  [Created(st, tcd) EXCEPT
                      !.task_finished = TRUE, !.status = "completed",
                      !.out = "finish", !.final_message = final_message]
    ELSE IF tcd.args = "bad"
    THEN \* line 221: create_tool_call raises before actions.append
         [st EXCEPT !.out = "except", !.error = "ValidationError"]
    ELSE LET st1 == [Created(st, tcd) EXCEPT !.status = "acting"]
             got == get_tool(tcd.name)
         IN  IF got.raised
             THEN [st1 EXCEPT !.out = "except", !.error = "Tool not found"]
             ELSE LET result_status == execute_with_result(tcd.run)
                      observation == Observation(tcd.name, result_status)
                  IN  IF result_status \notin {"success", "error"}
                      THEN \* an exception that execute_with_result let through
                           [st1 EXCEPT !.tool_log = Append(@, tcd.name),
                                       !.out = "except", !.error = "tool raised"]
                      ELSE [st1 EXCEPT
                              !.tool_log = Append(@, tcd.name),
                              !.observations = Append(@, observation),
                              !.messages = @ \o
                                <<[role |-> "assistant",
                                   content |-> IF thought # "" THEN thought
                                               ELSE "Using tool: " \o tcd.name],
                                  [role |-> "tool", content |-> observation]>>]

\* whether the loop body left execute_task: the return of line 210 or an
\* exception (mutant: only an exception leaves)
LeavesTask_onlyexcept(out) == out = "except"
LeavesTask(out) == out # "next"

\* the for loop over response["tool_calls"]: it stops at the first return
RECURSIVE HandleToolCalls(_, _, _, _)
HandleToolCalls(st, tcs, i, thought) ==
    IF i > Len(tcs) THEN st
    ELSE LET st1 == HandleToolCall(st, tcs[i], thought)
         IN  IF LeavesTask(st1.out) THEN st1
             ELSE HandleToolCalls(st1, tcs, i + 1, thought)

\* the locals of execute_task and the history of tool runs, as they stand
Locals ==
    [thoughts |-> thoughts, actions |-> actions, observations |-> observations,
     messages |-> messages, tool_log |-> tool_log, iteration |-> iteration]

\* execute_task up to the loop: lines 86-127
StartTask ==
    /\ pc = "idle"
    /\ pc' = "loop"
    /\ task_finished' = FALSE
    /\ status' = "thinking"
    /\ messages' = InitialMessages
    /\ thoughts' = <<>>
    /\ actions' = <<>>
    /\ observations' = <<>>
    /\ iteration' = 0
    /\ UNCHANGED <<ret, llm_calls, tool_log, last_resp, prev, varied, utcnow,
                   call_ids, stalls, agent_type, offered>>
    /\ UNCHANGED <<sandboxVars, workflowVars, hostVars, parserVars, planFileVars,
                   refinementVars, llmVars>>

\* the readings of a clock that moves between any two readings
Moving == [i \in 1..MaxCalls |-> TRUE]

\* one iteration of the ReAct loop (lines 130-279) on backend response resp;
\* reads says, for each ToolCall the iteration creates, whether the clock
\* has moved since the reading before
Iteration(resp, reads) ==
    /\ pc = "loop"
    /\ iteration < max_iterations
    /\ UNCHANGED agent_type
    /\ IF task_finished
       THEN \* lines 132-142
            /\ status' = "completed"
            /\ ret' = FlagReturn(thoughts, actions, observations, iteration)
            /\ pc' = "done"
            /\ reads = Moving
            /\ UNCHANGED <<iteration, task_finished, thoughts, actions,
                           observations, messages, llm_calls, tool_log,
                           last_resp, prev, utcnow, call_ids, stalls, offered>>
       ELSE /\ llm_calls' = llm_calls + 1
            /\ offered' = OfferedTools(agent_type)
            /\ last_resp' = resp
            /\ prev' = Locals
            /\ IF resp.raised
               THEN \* chat_completion raised: the except clause
                    /\ status' = "error"
                    /\ ret' = ExceptReturn("backend", thoughts, actions,
                                           observations, iteration)
                    /\ pc' = "done"
                    /\ reads = Moving
                    /\ UNCHANGED <<iteration, task_finished, thoughts, actions,
                                   observations, messages, tool_log, utcnow,
                                   call_ids, stalls>>
               ELSE LET thought == resp.content
                        th == IF thought # "" THEN Append(thoughts, thought)
                              ELSE thoughts
                        st0 == [actions |-> actions,
                                observations |-> observations,
                                messages |-> messages,
                                task_finished |-> task_finished,
                                status |-> status,
                                tool_log |-> tool_log,
                                utcnow |-> utcnow, call_ids |-> call_ids,
                                reads |-> reads, stalled |-> 0,
                                out |-> "next", error |-> NoKey,
                                final_message |-> NoKey]
                        st == HandleToolCalls(st0, resp.tool_calls, 1, thought)
                    IN  /\ thoughts' = th
                        /\ actions' = st.actions
                        /\ observations' = st.observations
                        /\ messages' = st.messages
                        /\ task_finished' = st.task_finished
                        /\ tool_log' = st.tool_log
                        /\ utcnow' = st.utcnow
                        /\ call_ids' = st.call_ids
                        /\ \A i \in 1..Len(st.reads) : st.reads[i]
                        /\ stalls + st.stalled <= MaxStalls
                        /\ stalls' = stalls + st.stalled
                        /\ IF resp.tool_calls = <<>>
                           THEN \* lines 258-268
                                /\ status' = "completed"
                                /\ ret' = NoToolCallsReturn(thought, th, actions,
                                              observations, iteration)
                                /\ pc' = "done"
                                /\ UNCHANGED iteration
                           ELSE CASE st.out = "finish" ->
                                     /\ status' = "completed"
                                     /\ ret' = FinishReturn(st.final_message,
                                                   thought, th, st.actions,
                                                   st.observations, iteration)
                                     /\ pc' = "done"
                                     /\ UNCHANGED iteration
                                  [] st.out = "except" ->
                                     /\ status' = "error"
                                     /\ ret' = ExceptReturn(st.error, th,
                                                   st.actions, st.observations,
                                                   iteration)
                                     /\ pc' = "done"
                                     /\ UNCHANGED iteration
                                  [] OTHER ->
                                     \* line 256, and on to the next iteration
                                     /\ status' = "thinking"
                                     /\ iteration' = iteration + 1
                                     /\ UNCHANGED <<ret, pc>>

\* the backend answers; at most MaxVaried answers of a task are not plain
BackendResponds ==
    \E resp \in Responses, reads \in [1..MaxCalls -> BOOLEAN] :
        /\ resp # PlainResponse => varied < MaxVaried
        /\ varied' = IF resp = PlainResponse THEN varied ELSE varied + 1
        /\ Iteration(resp, reads)
        /\ UNCHANGED <<sandboxVars, workflowVars, hostVars, parserVars, planFileVars,
                   refinementVars, llmVars>>

\* lines 281-290: the loop ran through all its iterations
MaxIterationsReached ==
    /\ pc = "loop"
    /\ iteration = max_iterations
    /\ status' = "completed"
    /\ ret' = MaxIterationsReturn(thoughts, actions, observations)
    /\ pc' = "done"
    /\ UNCHANGED <<iteration, task_finished, thoughts, actions, observations,
                   messages, llm_calls, tool_log, last_resp, prev, varied,
                   utcnow, call_ids, stalls, agent_type, offered>>
    /\ UNCHANGED <<sandboxVars, workflowVars, hostVars, parserVars, planFileVars,
                   refinementVars, llmVars>>

\* the host before any request: no run scheduled, no session directory
HostIdle ==
    /\ now = 0
    /\ runs = [r \in 1..MaxRuns |-> [pc |-> "none"]]
    /\ disk = <<>>

\* the parser before any call
ParserIdle ==
    /\ parses = <<>>
    /\ frame = [next_agent |-> "<absent>",
                plan_step |-> [kind |-> "none", value |-> 0, text |-> "NONE"],
                task_lines |-> <<>>, collecting_task |-> FALSE]

\* no plan made yet, no plan.json
PlanFileIdle ==
    /\ context_plan = [exists |-> FALSE]
    /\ plan_file = [exists |-> FALSE]
    /\ session_plan = [loaded |-> FALSE]

\* no strategy_refinement dispatch under way
RefinementIdle ==
    /\ refine_pc = "idle"
    /\ refine_iteration = 0
    /\ feedback = NoKey
    /\ refine_calls = <<>>
    /\ refine_journal = <<>>
    /\ refine_step = [kind |-> "none", value |-> 0, text |-> "NONE"]
    /\ refine_counter = 0
    /\ refine_status = <<>>

\* no request built yet
NoPayload == [messages |-> <<>>, instruction |-> FALSE, tools |-> FALSE]

\* no chat_completion call on the siliconflow path under way
LLMIdle ==
    /\ sf_pc = "idle"
    /\ sf_model = "Qwen/Qwen2.5-72B-Instruct"
    /\ sf_tools = FALSE
    /\ sf_messages = <<>>
    /\ sf_payload = NoPayload
    /\ http_requests = 0
    /\ rejects_tools = FALSE
    /\ sf_result = NoKey

\* plan = None
NoPlan == [exists |-> FALSE, steps |-> <<>>]

\* the engine before any execute_workflow call
WorkflowIdle ==
    /\ wf_pc = "idle"
    /\ request_type = "strategy"
    /\ wf_status = "none"
    /\ plan = NoPlan
    /\ plan_step_status = <<>>
    /\ last_action_summary = ""
    /\ strategy_iterations_completed = 0
    /\ final_report_created = FALSE
    /\ journal_step_counter = 0
    /\ decision_index = 0
    /\ finished = FALSE
    /\ journal = <<>>
    /\ attempts = 0
    /\ asks = <<>>
    /\ report_file = FALSE
    /\ writer_result = NoRet
    /\ wf_error = "<absent>"
    /\ wf_varied = 0

\* the sandbox before any execute call
SandboxIdle ==
    /\ sb_pc = "idle"
    /\ attempt_idx = 0
    /\ sb_messages = <<>>
    /\ attempt_summaries = <<>>
    /\ last_execution = NoExecution
    /\ generation = NoGeneration
    /\ proc = "none"
    /\ script_file = FALSE
    /\ ws_files = {}
    /\ sb_ret = NoRet
    /\ gen_calls = 0
    /\ launches = 0
    /\ proc_log = <<>>
    /\ timeouts = 0
    /\ sb_varied = 0
    /\ abandoned = 0

InitAgent ==
    /\ pc = "idle"
    /\ iteration = 0
    /\ task_finished = FALSE
    /\ status = "idle"
    /\ thoughts = <<>>
    /\ actions = <<>>
    /\ observations = <<>>
    /\ messages = <<>>
    /\ ret = NoRet
    /\ llm_calls = 0
    /\ tool_log = <<>>
    /\ last_resp = PlainResponse
    /\ prev = [thoughts |-> <<>>, actions |-> <<>>, observations |-> <<>>,
               messages |-> <<>>, tool_log |-> <<>>, iteration |-> 0]
    /\ varied = 0
    /\ utcnow = 0
    /\ call_ids = <<>>
    /\ stalls = 0
    /\ agent_type = "executor"
    /\ offered = <<>>
    /\ SandboxIdle
    /\ WorkflowIdle
    /\ HostIdle
    /\ ParserIdle
    /\ PlanFileIdle
    /\ RefinementIdle
    /\ LLMIdle

NextAgent ==
    \/ StartTask
    \/ BackendResponds
    \/ MaxIterationsReached

SpecAgent == InitAgent /\ [][NextAgent]_vars

\* an agent of type executor whose backend may list up to MaxListed tool
\* calls in a response: the calls drawn, the lists and the responses
ListedCalls ==
    {[name |-> "web_search", args |-> "obj", run |-> "returns"],
     [name |-> "file_saver", args |-> "obj", run |-> "returns"],
     [name |-> "finish", args |-> "obj", run |-> "returns"],
     [name |-> "finish", args |-> "bad", run |-> "returns"],
     [name |-> "web_search", args |-> "bad", run |-> "returns"],
     [name |-> "bogus", args |-> "obj", run |-> "returns"]}

ListedResponses ==
    {[content |-> "T", tool_calls |-> tcs, raised |-> FALSE] :
        tcs \in SeqsUpTo(ListedCalls, MaxListed) \ {<<>>}}

\* the clock moves between any two readings of such a response
MovingListed == [i \in 1..MaxListed |-> TRUE]

\* the backend answers with listed tool calls; at most MaxVaried answers of a
\* task are not plain
BackendListsCalls ==
    \E resp \in ListedResponses :
        /\ resp # PlainResponse => varied < MaxVaried
        /\ varied' = IF resp = PlainResponse THEN varied ELSE varied + 1
        /\ Iteration(resp, MovingListed)
        /\ UNCHANGED <<sandboxVars, workflowVars, hostVars, parserVars,
                       planFileVars, refinementVars, llmVars>>

NextAgentListed ==
    \/ StartTask
    \/ BackendListsCalls
    \/ MaxIterationsReached

SpecAgentListed == InitAgent /\ [][NextAgentListed]_vars

\* an agent of any of the types, before its execute_task call
InitAgentOfType ==
    /\ pc = "idle"
    /\ iteration = 0
    /\ task_finished = FALSE
    /\ status = "idle"
    /\ thoughts = <<>>
    /\ actions = <<>>
    /\ observations = <<>>
    /\ messages = <<>>
    /\ ret = NoRet
    /\ llm_calls = 0
    /\ tool_log = <<>>
    /\ last_resp = PlainResponse
    /\ prev = [thoughts |-> <<>>, actions |-> <<>>, observations |-> <<>>,
               messages |-> <<>>, tool_log |-> <<>>, iteration |-> 0]
    /\ varied = 0
    /\ utcnow = 0
    /\ call_ids = <<>>
    /\ stalls = 0
    /\ agent_type \in AgentTypes
    /\ offered = <<>>
    /\ SandboxIdle
    /\ WorkflowIdle
    /\ HostIdle
    /\ ParserIdle
    /\ PlanFileIdle
    /\ RefinementIdle
    /\ LLMIdle

SpecAgentOfType == InitAgentOfType /\ [][NextAgent]_vars

(***************************************************************************)
(* PythonExecutionTool (the code sandbox)                                  *)
(***************************************************************************)
\* What the code-generation backend can reply: an exception, or a content
\* text.  fence says which code fence the text holds ("python": a fence tagged
\* python, "generic": an untagged fence, "none": no fence), body what is between the fences.
GenerationReplies ==
    {[raised |-> TRUE, text |-> "", fence |-> "none", body |-> ""],
     [raised |-> FALSE, text |-> "", fence |-> "none", body |-> ""],
     [raised |-> FALSE, text |-> "prose", fence |-> "none", body |-> ""],
     [raised |-> FALSE, text |-> "<python></python>", fence |-> "python", body |-> ""],
     [raised |-> FALSE, text |-> "<python>code</python>", fence |-> "python",
      body |-> "code"],
     [raised |-> FALSE, text |-> "<fence>code</fence>", fence |-> "generic",
      body |-> "code"]}

PlainReply ==
    [raised |-> FALSE, text |-> "<python>code</python>", fence |-> "python",
     body |-> "code"]

\* _extract_python_code: the stripped body of the first python fence, else of
\* the first generic fence, else None (NoKey)
_extract_python_code(content) ==
    IF content.fence = "none" THEN NoKey ELSE content.body

\* _generate_code: {"code", "raw_response"}, or the exception raised
_generate_code(reply) ==
    IF reply.raised
    THEN [raised |-> TRUE, error |-> "backend", code |-> NoKey,
          raw_response |-> NoKey]
    ELSE IF reply.text = ""
    THEN [raised |-> TRUE, error |-> "Code generation returned empty content",
          code |-> NoKey, raw_response |-> NoKey]
    ELSE LET code == _extract_python_code(reply)
         IN  IF code = NoKey \/ code = ""
             THEN [raised |-> TRUE,
                   error |-> "Could not extract Python code block from generation response",
                   code |-> NoKey, raw_response |-> NoKey]
             ELSE [raised |-> FALSE, error |-> NoKey, code |-> code,
                   raw_response |-> reply.text]

\* How a subprocess running the wrapper script of _create_execution_script
\* can end: its exit status and the last line of its stdout.
\*   "summary"  the wrapper's json.dumps(result) line; return_code and
\*              files_created are the fields of that line
\*   "object"   a JSON object that has no return_code key
\*   "text"     no line, or one json.loads or the item assignment rejects
\* The wrapper ends with (0, summary 0) or (1, summary 1); generated code that
\* leaves the interpreter itself (sys.exit, os._exit) or writes to the real
\* stdout gives the others.
\* written is what the generated code did: the names it added to the
\* workspace directory before it finished, raised or left the interpreter.
\* The try branch of the wrapper (lines 404-416) reports
\* list(files_after - files_before); its except branch (lines 418-437)
\* reports the literal [].
ProcessOutcomes ==
    {[exit |-> 0, last_line |-> "summary", return_code |-> 0,
      files_created |-> f, written |-> f] : f \in {<<>>, <<"summary.csv">>}}
    \cup {[exit |-> 1, last_line |-> "summary", return_code |-> 1,
           files_created |-> <<>>, written |-> w] :
              w \in {<<>>, <<"summary.csv">>}}
    \cup {[exit |-> e, last_line |-> "text", return_code |-> e,
           files_created |-> <<>>, written |-> <<>>] : e \in {0, 1}}
    \cup {[exit |-> 1, last_line |-> "text", return_code |-> 1,
           files_created |-> <<>>, written |-> <<"summary.csv">>]}
    \cup {[exit |-> 0, last_line |-> "object", return_code |-> 0,
           files_created |-> <<>>, written |-> <<>>]}

PlainOutcome ==
    [exit |-> 1, last_line |-> "summary", return_code |-> 1,
     files_created |-> <<>>, written |-> <<>>]

\* _execute_in_subprocess, lines 457-472: the parsed last line, or the
\* fallback dict built from the raw output and process.returncode
ParseOutput(out) ==
    IF out.last_line = "summary"
    THEN [stdout |-> "captured", has_return_code |-> TRUE,
          return_code |-> out.return_code, files_created |-> out.files_created]
    ELSE IF out.last_line = "object"
    THEN [stdout |-> "captured", has_return_code |-> FALSE,
          return_code |-> 0, files_created |-> <<>>]
    ELSE [stdout |-> "raw", has_return_code |-> TRUE,
          return_code |-> out.exit, files_created |-> <<>>]

\* _execute_generated_code, lines 309-355: the execution dict, or the KeyError
\* of result['return_code']
_execute_generated_code(result) ==
    IF ~result.has_return_code
    THEN [raised |-> TRUE, error |-> "'return_code'"]
    ELSE LET success == result.return_code = 0
         IN  [raised |-> FALSE, error |-> NoKey,
              stdout |-> result.stdout,
              return_code |-> result.return_code,
              files_created |-> result.files_created,
              success |-> success,
              error_report |-> IF success THEN NoKey ELSE "error_report"]

\* the entry of lines 124-135
AttemptSummary(idx, execution, gen) ==
    [attempt |-> idx, return_code |-> execution.return_code,
     success |-> execution.success, stdout |-> execution.stdout,
     files_created |-> execution.files_created,
     generated_code |-> gen.code,
     code_generation_response |-> gen.raw_response]

\* _build_feedback_message: the prompt built from the failed execution
_build_feedback_message(idx, execution) ==
    [role |-> "user", content |-> "feedback", attempt |-> idx,
     return_code |-> execution.return_code]

\* line 139: whether the loop is left after this attempt
\* (mutant: the loop goes on after a successful attempt)
LeavesLoop_never(execution) == FALSE
LeavesLoop(execution) == execution.success

\* the except clauses of execute, lines 171-176: the exception re-raised
\* (mutant: the asyncio.TimeoutError clause is missing)
ExceptClause_generic(exc) == "Execution failed: " \o exc
ExceptClause(exc) ==
    IF exc = "TimeoutError"
    THEN "Execution timeout after 300 seconds"
    ELSE "Execution failed: " \o exc

Raised(text) == [returned |-> TRUE, raised |-> TRUE, error |-> text,
                 execution |-> NoExecution]

\* _persist_generated_code: the first name not in the workspace
PersistName(counter) ==
    IF counter = 0 THEN "task_ts.py"
    ELSE "task_ts_" \o ToString(counter) \o ".py"
\* (mutant: the first name is taken whether or not it exists)
FreeCounter_first(files, counter) == counter
RECURSIVE FreeCounter(_, _)
FreeCounter(files, counter) ==
    IF PersistName(counter) \in files THEN FreeCounter(files, counter + 1)
    ELSE counter

\* lines 151-170: what execute returns after the loop
\* (mutant: the attempt limit is reported as the number of attempts made)
AfterLoop_limit(execution, summaries, files) ==
    LET persists == execution.success /\ execution.generated_code # ""
        name == PersistName(FreeCounter(files, 0))
    IN  [returned |-> TRUE, raised |-> FALSE, error |-> NoKey,
         execution |->
            [present |-> TRUE,
             success |-> execution.success,
             return_code |-> execution.return_code,
             stdout |-> execution.stdout,
             files_created |-> execution.files_created,
             generated_code |-> execution.generated_code,
             attempt |-> execution.attempt,
             artifacts |-> IF persists THEN <<name>> ELSE <<>>,
             attempts |-> summaries,
             total_attempts |-> max_attempts,
             max_attempts |-> max_attempts]]
AfterLoop(execution, summaries, files) ==
    LET persists == execution.success /\ execution.generated_code # ""
        name == PersistName(FreeCounter(files, 0))
    IN  [returned |-> TRUE, raised |-> FALSE, error |-> NoKey,
         execution |->
            [present |-> TRUE,
             success |-> execution.success,
             return_code |-> execution.return_code,
             stdout |-> execution.stdout,
             files_created |-> execution.files_created,
             generated_code |-> execution.generated_code,
             attempt |-> execution.attempt,
             artifacts |-> IF persists THEN <<name>> ELSE <<>>,
             attempts |-> summaries,
             total_attempts |-> Len(summaries),
             max_attempts |-> max_attempts]]

Range(seq) == {seq[i] : i \in 1..Len(seq)}

\* line 115: an exception of _generate_code leaves the for loop and reaches
\* the except clauses of execute
\* (mutant: the loop asks for another generation while attempts are left)
AfterGenerationError_retry(idx) ==
    IF idx < max_attempts THEN "loop" ELSE "raised"
AfterGenerationError(idx) == "raised"

\* execute up to the loop: lines 95-104
StartExecute ==
    /\ sb_pc = "idle"
    /\ \E task_description \in {"", "task"} :
          IF task_description = ""
          THEN /\ sb_pc' = "raised"
               /\ sb_ret' = Raised(ExceptClause(
                      "task_description is required and cannot be empty"))
               /\ UNCHANGED <<attempt_idx, sb_messages>>
          ELSE /\ sb_pc' = "loop"
               /\ attempt_idx' = 1
               /\ sb_messages' =
                      <<[role |-> "system", content |-> "system_prompt"],
                        [role |-> "user", content |-> task_description]>>
               /\ UNCHANGED sb_ret
    /\ attempt_summaries' = <<>>
    /\ last_execution' = NoExecution
    /\ UNCHANGED <<generation, proc, script_file, ws_files, gen_calls,
                   launches, proc_log, timeouts, sb_varied>>
    /\ UNCHANGED abandoned
    /\ UNCHANGED <<agentVars, workflowVars, hostVars, parserVars, planFileVars,
                   refinementVars, llmVars>>

\* lines 115-119 and 436-453: the code is generated, the wrapper script is
\* written to a temporary file and the subprocess is started
GenerateAndLaunch ==
    /\ sb_pc = "loop"
    /\ \E reply \in GenerationReplies :
          LET gen == _generate_code(reply)
          IN  /\ reply.fence = "generic" => sb_varied < MaxVariedAttempts
              /\ sb_varied' = IF reply.fence = "generic" THEN sb_varied + 1
                              ELSE sb_varied
              /\ gen_calls' = gen_calls + 1
              /\ IF gen.raised
                 THEN /\ sb_pc' = AfterGenerationError(attempt_idx)
                      /\ sb_ret' = Raised(ExceptClause(gen.error))
                      /\ UNCHANGED <<sb_messages, generation, proc,
                                     script_file, launches>>
                 ELSE /\ sb_pc' = "running"
                      /\ generation' = gen
                      /\ sb_messages' = Append(sb_messages,
                             [role |-> "assistant", content |-> gen.raw_response])
                      /\ script_file' = TRUE
                      /\ proc' = "running"
                      /\ launches' = launches + 1
                      /\ UNCHANGED sb_ret
    /\ UNCHANGED <<attempt_idx, attempt_summaries, last_execution, ws_files,
                   proc_log, timeouts>>
    /\ UNCHANGED abandoned
    /\ UNCHANGED <<agentVars, workflowVars, hostVars, parserVars, planFileVars,
                   refinementVars, llmVars>>

\* process.communicate() returns within the timeout: lines 455-475, then
\* lines 119-143 and, when the loop is left, lines 151-170
SubprocessExits ==
    /\ sb_pc = "running"
    /\ proc = "running"
    /\ \E out \in ProcessOutcomes :
          LET result == ParseOutput(out)
              exe == _execute_generated_code(result)
              files == ws_files \cup Range(out.written)
          IN  /\ Range(out.written) \cap ws_files = {}
              /\ proc' = "exited"
              /\ script_file' = FALSE
              /\ proc_log' = Append(proc_log,
                     [exit |-> out.exit, last_line |-> out.last_line,
                      written |-> out.written])
              /\ IF exe.raised
                 THEN /\ sb_pc' = "raised"
                      /\ sb_ret' = Raised(ExceptClause(exe.error))
                      /\ ws_files' = files
                      /\ UNCHANGED <<attempt_idx, sb_messages,
                                     attempt_summaries, last_execution,
                                     sb_varied>>
                 ELSE LET execution ==
                              [present |-> TRUE,
                               stdout |-> exe.stdout,
                               return_code |-> exe.return_code,
                               files_created |-> exe.files_created,
                               success |-> exe.success,
                               error_report |-> exe.error_report,
                               generated_code |-> generation.code,
                               attempt |-> attempt_idx]
                          summaries == Append(attempt_summaries,
                              AttemptSummary(attempt_idx, execution, generation))
                          leaves == LeavesLoop(execution)
                          costs == ~leaves /\ out # PlainOutcome
                      IN  /\ costs => sb_varied < MaxVariedAttempts
                          /\ sb_varied' = IF costs THEN sb_varied + 1
                                          ELSE sb_varied
                          /\ attempt_summaries' = summaries
                          /\ last_execution' = execution
                          /\ sb_messages' =
                                 IF leaves THEN sb_messages
                                 ELSE Append(sb_messages,
                                        _build_feedback_message(attempt_idx,
                                                                execution))
                          /\ IF ~leaves /\ attempt_idx < max_attempts
                             THEN /\ attempt_idx' = attempt_idx + 1
                                  /\ sb_pc' = "loop"
                                  /\ ws_files' = files
                                  /\ UNCHANGED sb_ret
                             ELSE LET r == AfterLoop(execution, summaries, files)
                                  IN  /\ sb_pc' = "returned"
                                      /\ sb_ret' = r
                                      /\ ws_files' = files \cup
                                             Range(r.execution.artifacts)
                                      /\ UNCHANGED attempt_idx
    /\ UNCHANGED <<generation, gen_calls, launches, timeouts>>
    /\ UNCHANGED abandoned
    /\ UNCHANGED <<agentVars, workflowVars, hostVars, parserVars, planFileVars,
                   refinementVars, llmVars>>

\* asyncio.wait_for gives up on process.communicate(): it cancels the wait and
\* raises TimeoutError; the finally clause removes the script file; nothing
\* signals the subprocess.  The exception leaves _execute_generated_code and
\* reaches the except clause of execute.
SubprocessTimesOut ==
    /\ sb_pc = "running"
    /\ proc = "running"
    /\ script_file' = FALSE
    /\ timeouts' = timeouts + 1
    /\ proc_log' = Append(proc_log,
           [exit |-> -1, last_line |-> "timeout", written |-> <<>>])
    /\ sb_pc' = "raised"
    /\ sb_ret' = Raised(ExceptClause("TimeoutError"))
    /\ UNCHANGED <<attempt_idx, sb_messages, attempt_summaries, last_execution,
                   generation, proc, ws_files, gen_calls, launches, sb_varied>>
    /\ UNCHANGED abandoned
    /\ UNCHANGED <<agentVars, workflowVars, hostVars, parserVars, planFileVars,
                   refinementVars, llmVars>>

\* a subprocess nobody waits for any more ends by itself
AbandonedSubprocessEnds ==
    /\ sb_pc = "raised"
    /\ proc = "running"
    /\ proc' = "exited"
    /\ UNCHANGED <<sb_pc, attempt_idx, sb_messages, attempt_summaries,
                   last_execution, generation, script_file, ws_files, sb_ret,
                   gen_calls, launches, proc_log, timeouts, sb_varied>>
    /\ UNCHANGED abandoned
    /\ UNCHANGED <<agentVars, workflowVars, hostVars, parserVars, planFileVars,
                   refinementVars, llmVars>>

\* BaseTool.execute_with_result has handed the outcome of execute to the agent
\* (an exception as a ToolResult of status error), and the agent's loop calls
\* the tool again (base_agent.py lines 231-235): execute starts anew on the
\* same tool object and workspace.  A subprocess that the call left running
\* keeps running.  The history variables are those of the call under way.
CalledAgain ==
    /\ sb_pc \in {"returned", "raised"}
    /\ sb_varied < MaxVariedAttempts
    /\ sb_varied' = sb_varied + 1
    /\ sb_pc' = "idle"
    /\ abandoned' = IF proc = "running" THEN abandoned + 1 ELSE abandoned
    /\ proc' = "none"
    /\ attempt_idx' = 0
    /\ sb_messages' = <<>>
    /\ attempt_summaries' = <<>>
    /\ last_execution' = NoExecution
    /\ generation' = NoGeneration
    /\ sb_ret' = NoRet
    /\ gen_calls' = 0
    /\ launches' = 0
    /\ proc_log' = <<>>
    /\ timeouts' = 0
    /\ UNCHANGED <<script_file, ws_files>>
    /\ UNCHANGED <<agentVars, workflowVars, hostVars, parserVars, planFileVars,
                   refinementVars, llmVars>>

\* a subprocess that an earlier call left running ends by itself
EarlierSubprocessEnds ==
    /\ abandoned > 0
    /\ abandoned' = abandoned - 1
    /\ UNCHANGED <<sb_pc, attempt_idx, sb_messages, attempt_summaries,
                   last_execution, generation, proc, script_file, ws_files,
                   sb_ret, gen_calls, launches, proc_log, timeouts, sb_varied>>
    /\ UNCHANGED <<agentVars, workflowVars, hostVars, parserVars, planFileVars,
                   refinementVars, llmVars>>

\* the agent before any execute_task call
AgentIdle ==
    /\ pc = "idle"
    /\ iteration = 0
    /\ task_finished = FALSE
    /\ status = "idle"
    /\ thoughts = <<>>
    /\ actions = <<>>
    /\ observations = <<>>
    /\ messages = <<>>
    /\ ret = NoRet
    /\ llm_calls = 0
    /\ tool_log = <<>>
    /\ last_resp = PlainResponse
    /\ prev = [thoughts |-> <<>>, actions |-> <<>>, observations |-> <<>>,
               messages |-> <<>>, tool_log |-> <<>>, iteration |-> 0]
    /\ varied = 0
    /\ utcnow = 0
    /\ call_ids = <<>>
    /\ stalls = 0
    /\ agent_type = "executor"
    /\ offered = <<>>

\* the tool as constructed, in a workspace that may already hold the names
\* _persist_generated_code tries first
InitSandbox ==
    /\ sb_pc = "idle"
    /\ attempt_idx = 0
    /\ sb_messages = <<>>
    /\ attempt_summaries = <<>>
    /\ last_execution = NoExecution
    /\ generation = NoGeneration
    /\ proc = "none"
    /\ script_file = FALSE
    /\ ws_files \in {{}, {PersistName(0)}, {PersistName(0), PersistName(1)}}
    /\ sb_ret = NoRet
    /\ gen_calls = 0
    /\ launches = 0
    /\ proc_log = <<>>
    /\ timeouts = 0
    /\ sb_varied = 0
    /\ abandoned = 0
    /\ AgentIdle
    /\ WorkflowIdle
    /\ HostIdle
    /\ ParserIdle
    /\ PlanFileIdle
    /\ RefinementIdle
    /\ LLMIdle

NextSandbox ==
    \/ StartExecute
    \/ GenerateAndLaunch
    \/ SubprocessExits
    \/ SubprocessTimesOut
    \/ AbandonedSubprocessEnds
    \/ CalledAgain
    \/ EarlierSubprocessEnds

SpecSandbox == InitSandbox /\ [][NextSandbox]_vars

(***************************************************************************)
(* WorkflowEngine.execute_workflow (the orchestration controller)          *)
(***************************************************************************)
\* the selectors a reply's NEXT_AGENT line can carry ("analyst" stands for
\* any name outside the five the controller knows), and what its PLAN_STEP
\* line can carry; NoKey: the line is missing
Selectors ==
    {"planner", "executor", "strategy_refinement", "writer", "finish",
     "analyst"}

StepTexts == {"NONE", "1", "7", "2a"}

OrchestratorReplies ==
    [next_agent : Selectors \cup {NoKey},
     plan_step : StepTexts \cup {NoKey},
     task : {NoKey, "task"}]

\* the step field of a decision: None, an int, or a str
NoStep == [kind |-> "none", value |-> 0, text |-> "NONE"]

IntStep(n, text) == [kind |-> "int", value |-> n, text |-> text]

StrStep(text) == [kind |-> "str", value |-> 0, text |-> text]

\* int(value) of Python for the texts above: the set of texts it accepts and
\* what it gives
IntTexts == {"1", "7"}

IntOf(text) == IF text = "1" THEN 1 ELSE 7

\* _parse_decision_response, lines 133-143: the PLAN_STEP value
ParsePlanStep(text) ==
    IF text = NoKey \/ text = "NONE" THEN NoStep
    ELSE IF text \in IntTexts THEN IntStep(IntOf(text), text)
    ELSE StrStep(text)

_parse_decision_response(reply) ==
    [next_agent |-> reply.next_agent,
     plan_step |-> ParsePlanStep(reply.plan_step),
     task |-> reply.task]

\* decide_next_step, line 105: the reply is returned as the decision
AcceptsReply_taskless(parsed) == parsed.next_agent # NoKey
AcceptsReply(parsed) ==
    /\ parsed.next_agent # NoKey
    /\ (parsed.next_agent \in {"planner", "finish"} \/ parsed.task # NoKey)

\* the decisions decide_next_step can return with a given selector
Decisions(agent) ==
    {parsed \in {_parse_decision_response(reply) :
                    reply \in OrchestratorReplies} :
        AcceptsReply(parsed) /\ parsed.next_agent = agent}

\* the parsed replies decide_next_step does not accept
RejectedReplies ==
    {parsed \in {_parse_decision_response(reply) :
                    reply \in OrchestratorReplies} : ~AcceptsReply(parsed)}

\* execute_workflow, lines 326-330: a str step goes through int() once more
ConvertPlanStep(plan_step) ==
    IF plan_step.kind = "str"
    THEN IF plan_step.text \in IntTexts
         THEN IntStep(IntOf(plan_step.text), plan_step.text)
         ELSE IF plan_step.text = "NONE" THEN NoStep ELSE plan_step
    ELSE plan_step

\* isinstance(plan_step, int)
IsInt(plan_step) == plan_step.kind = "int"

\* what PlannerAgent.execute_task can give create_plan: a reply holding a
\* JSON array of step dicts (its step_number values, in order), or one
\* holding none
PlannerReplies ==
    {[json |-> TRUE, steps |-> s] : s \in {<<1, 2>>, <<2, 1>>, <<1, 1>>}}
    \cup {[json |-> FALSE, steps |-> <<>>]}

\* the request kinds _determine_request_type tells apart
RequestTypes == {"strategy", "eda"}

\* _create_default_plan: six steps for a strategy request, five otherwise
_create_default_plan(rtype) ==
    IF rtype = "strategy" THEN <<1, 2, 3, 4, 5, 6>> ELSE <<1, 2, 3, 4, 5>>

\* create_plan, lines 146-180
create_plan(rtype, reply) ==
    [exists |-> TRUE,
     steps |-> IF reply.json THEN reply.steps
               ELSE _create_default_plan(rtype)]

StepNumbers(p) == {p.steps[i] : i \in 1..Len(p.steps)}

\* what ExecutorAgent.execute_task returns to the controller
ExecutorResults == {[success |-> TRUE], [success |-> FALSE]}

\* _summarize_result, lines 189-202
_summarize_result(result) ==
    IF result.success THEN "SUCCESS: result" ELSE "STATUS: error"

\* _build_state_summary, lines 156-173: the lines of the summary
_build_state_summary(current, total, completed, iterations, report, decisions) ==
    [status |-> current,
     decisions_made |-> decisions,
     plan_steps_completed |-> completed,
     plan_total_steps |-> total,
     strategy_iterations_completed |-> iterations,
     final_report_created |-> IF report THEN "Yes" ELSE "No"]

\* plan_step_status[plan_step] = info
Record(statuses, step, info) ==
    [k \in DOMAIN statuses \cup {step} |->
        IF k = step THEN info ELSE statuses[k]]

\* lines 372, 375-377 and their twins in the other two handlers
RecordIfInt_never(statuses, plan_step, info) == statuses
RecordIfInt(statuses, plan_step, info) ==
    IF IsInt(plan_step) THEN Record(statuses, plan_step.value, info)
    ELSE statuses

\* line 371 and its twins: the key of the journal entry
\* (mutant: the entry is always keyed by the counter)
log_step_number_counter(plan_step, counter) == counter
log_step_number(plan_step, counter) ==
    IF IsInt(plan_step) THEN plan_step.value ELSE counter

\* _log_step_to_journal, lines 48-122: the entry it appends
StepEntry(agent, step_num, result_success) ==
    [kind |-> "step", agent |-> agent, step_num |-> step_num,
     success |-> result_success]

\* the parts a journal entry carries: the sections _log_step_to_journal
\* writes (lines 58-122), the list of the Planning Phase entry (lines
\* 348-356), the text of the other entries
Sections(entry) ==
    IF entry.kind = "step"
    THEN {"objective", "timestamp", "status", "iterations", "thoughts",
          "actions", "observations", "files_created", "result"}
    ELSE IF entry.kind = "planning"
    THEN {"step_numbers", "objectives", "timestamp"}
    ELSE IF entry.kind = "header"
    THEN {"session_id", "user_request", "timestamp"}
    ELSE IF entry.kind = "final_report"
    THEN {"report_path", "timestamp"}
    ELSE IF entry.kind = "failed"
    THEN {"error", "timestamp"}
    ELSE {"reason", "decisions_made", "timestamp"}

\* the decision sequences drawn: decisions other than the plain one (executor,
\* no step, a task, success) come first and number at most MaxVariedDecisions;
\* the plain decision may follow until the budget of decisions is used up
MayVary == wf_varied < MaxVariedDecisions /\ wf_varied = decision_index

IsPlain(parsed, result) ==
    /\ parsed.next_agent = "executor"
    /\ parsed.plan_step = NoStep
    /\ result.success

\* line 284: the loop has an iteration left
AwaitingDecision_unbounded == wf_pc = "deciding"
AwaitingDecision_afterend == decision_index < max_decisions
AwaitingDecision == wf_pc = "deciding" /\ decision_index < max_decisions

\* decide_next_step, lines 95-98: the prompt of the ask made after n rejected
\* replies
Prompt_nocorrection(n) == "base_prompt"
Prompt(n) ==
    IF n = 0 THEN "base_prompt" ELSE "base_prompt + format correction"

\* why line 105 does not accept a parsed reply
RejectKind(parsed) ==
    IF parsed.next_agent = NoKey THEN "no selector" ELSE "no task"

\* what decide_next_step returned on a reply: nothing, or the decision of
\* lines 106-111
NoDecision == [next_agent |-> NoKey, task |-> NoKey, plan_step |-> NoStep]

Returned(parsed) ==
    [next_agent |-> parsed.next_agent, task |-> parsed.task,
     plan_step |-> parsed.plan_step]

\* the asks of the decide_next_step call under way, with the one just answered
Asked(outcome, returned) ==
    Append(IF attempts = 0 THEN <<>> ELSE asks,
           [prompt |-> Prompt(attempts), reply |-> outcome,
            returned |-> returned])

\* lines 213-281
StartWorkflow ==
    /\ wf_pc = "idle"
    /\ wf_pc' = "deciding"
    /\ wf_status' = "initializing"
    /\ journal' = <<[kind |-> "header"]>>
    /\ plan' = NoPlan
    /\ plan_step_status' = <<>>
    /\ last_action_summary' = "Workflow initialized."
    /\ strategy_iterations_completed' = 0
    /\ final_report_created' = FALSE
    /\ journal_step_counter' = 0
    /\ decision_index' = 0
    /\ finished' = FALSE
    /\ attempts' = 0
    /\ asks' = <<>>
    /\ UNCHANGED <<request_type, report_file, writer_result, wf_error,
                   wf_varied>>
    /\ UNCHANGED <<agentVars, sandboxVars, hostVars, parserVars, planFileVars,
                   refinementVars, llmVars>>

\* the except clause of lines 505-515
FailWorkflow_statuskept(error) ==
    /\ wf_status' = wf_status
    /\ journal' = Append(journal, [kind |-> "failed", error |-> error])
    /\ wf_error' = error
    /\ wf_pc' = "raised"
FailWorkflow_silent(error) ==
    /\ wf_status' = "failed"
    /\ journal' = journal
    /\ wf_error' = error
    /\ wf_pc' = "raised"
FailWorkflow(error) ==
    /\ wf_status' = "failed"
    /\ journal' = Append(journal, [kind |-> "failed", error |-> error])
    /\ wf_error' = error
    /\ wf_pc' = "raised"

\* decide_next_step, lines 92-113: a reply that is not accepted, with a retry
\* left
ReplyRejected ==
    /\ AwaitingDecision
    /\ MayVary
    /\ attempts < 2
    /\ \E parsed \in RejectedReplies :
          asks' = Asked(RejectKind(parsed), NoDecision)
    /\ attempts' = attempts + 1
    /\ UNCHANGED <<wf_pc, request_type, wf_status, plan, plan_step_status,
                   last_action_summary, strategy_iterations_completed,
                   final_report_created, journal_step_counter, decision_index,
                   finished, journal, report_file, writer_result, wf_error,
                   wf_varied>>
    /\ UNCHANGED <<agentVars, sandboxVars, hostVars, parserVars, planFileVars,
                   refinementVars, llmVars>>

\* decide_next_step, lines 114-116: the third reply is not accepted either
DecisionFails ==
    /\ AwaitingDecision
    /\ MayVary
    /\ attempts = 2
    /\ \E parsed \in RejectedReplies :
          asks' = Asked(RejectKind(parsed), NoDecision)
    /\ FailWorkflow("Orchestrator failed to provide a valid NEXT_AGENT after 3 attempts.")
    /\ attempts' = 3
    /\ wf_varied' = wf_varied + 1
    /\ UNCHANGED <<request_type, plan, plan_step_status, last_action_summary,
                   strategy_iterations_completed, final_report_created,
                   journal_step_counter, decision_index, finished,
                   report_file, writer_result>>
    /\ UNCHANGED <<agentVars, sandboxVars, hostVars, parserVars, planFileVars,
                   refinementVars, llmVars>>

\* lines 319-324: an accepted decision the controller rejects
DecisionInvalid ==
    /\ AwaitingDecision
    /\ MayVary
    /\ \E agent \in Selectors :
       \E parsed \in Decisions(agent) :
          \/ /\ parsed.next_agent \notin
                    {"planner", "executor", "strategy_refinement", "writer",
                     "finish"}
             /\ FailWorkflow("Orchestrator selected unknown agent.")
             /\ asks' = Asked("accepted", Returned(parsed))
          \/ /\ parsed.next_agent \in
                    {"executor", "strategy_refinement", "writer"}
             /\ parsed.task = NoKey
             /\ FailWorkflow("Orchestrator did not provide TASK description for delegated agent.")
             /\ asks' = Asked("accepted", Returned(parsed))
    /\ attempts' = 0
    /\ wf_varied' = wf_varied + 1
    /\ UNCHANGED <<request_type, plan, plan_step_status, last_action_summary,
                   strategy_iterations_completed, final_report_created,
                   journal_step_counter, decision_index, finished,
                   report_file, writer_result>>
    /\ UNCHANGED <<agentVars, sandboxVars, hostVars, parserVars, planFileVars,
                   refinementVars, llmVars>>

\* lines 332-336 and the way out of lines 495-504
Finish ==
    /\ AwaitingDecision
    /\ MayVary
    /\ \E parsed \in Decisions("finish") :
          asks' = Asked("accepted", Returned(parsed))
    /\ wf_status' = "completed"
    /\ last_action_summary' = "Workflow marked complete by orchestrator."
    /\ finished' = TRUE
    /\ wf_pc' = "returned"
    /\ attempts' = 0
    /\ wf_varied' = wf_varied + 1
    /\ UNCHANGED <<request_type, plan, plan_step_status,
                   strategy_iterations_completed, final_report_created,
                   journal_step_counter, decision_index, journal,
                   report_file, writer_result, wf_error>>
    /\ UNCHANGED <<agentVars, sandboxVars, hostVars, parserVars, planFileVars,
                   refinementVars, llmVars>>

\* line 343: plan_step_status = {}
StatusAfterPlanning_kept(statuses) == statuses
StatusAfterPlanning(statuses) == <<>>

\* lines 338-359
DispatchPlanner ==
    /\ AwaitingDecision
    /\ MayVary
    /\ \E parsed \in Decisions("planner") :
          asks' = Asked("accepted", Returned(parsed))
    /\ \E answer \in PlannerReplies :
          LET new_plan == create_plan(request_type, answer)
          IN  /\ plan' = new_plan
              /\ plan_step_status' = StatusAfterPlanning(plan_step_status)
              /\ journal' = Append(journal, [kind |-> "planning",
                                             steps |-> new_plan.steps])
              /\ last_action_summary' = "Planner produced plan."
    /\ wf_status' = "executing"
    /\ decision_index' = decision_index + 1
    /\ attempts' = 0
    /\ writer_result' = NoRet
    /\ wf_varied' = wf_varied + 1
    /\ UNCHANGED <<wf_pc, request_type, strategy_iterations_completed,
                   final_report_created, journal_step_counter, finished,
                   report_file, wf_error>>
    /\ UNCHANGED <<agentVars, sandboxVars, hostVars, parserVars, planFileVars,
                   refinementVars, llmVars>>

\* lines 361-379; writes: whether the executor, whose tools include
\* file_saver, saved a file named final_report.md that was not there
DispatchExecutor ==
    /\ AwaitingDecision
    /\ \E parsed \in Decisions("executor"), result \in ExecutorResults,
          writes \in BOOLEAN :
          LET plan_step == ConvertPlanStep(parsed.plan_step)
              summary == _summarize_result(result)
              plain == IsPlain(parsed, result) /\ ~writes
          IN  /\ parsed.task # NoKey
              /\ writes => ~report_file
              /\ report_file' = (report_file \/ writes)
              /\ asks' = Asked("accepted", Returned(parsed))
              /\ plain \/ MayVary
              /\ wf_varied' = IF plain THEN wf_varied ELSE wf_varied + 1
              /\ journal_step_counter' = journal_step_counter + 1
              /\ journal' = Append(journal,
                    StepEntry("executor",
                              log_step_number(plan_step,
                                              journal_step_counter + 1),
                              result.success))
              /\ plan_step_status' =
                    RecordIfInt(plan_step_status, plan_step,
                        [status |-> IF result.success THEN "success"
                                    ELSE "failed",
                         summary |-> summary])
              /\ last_action_summary' = summary
    /\ wf_status' = "executing"
    /\ decision_index' = decision_index + 1
    /\ attempts' = 0
    /\ writer_result' = NoRet
    /\ UNCHANGED <<wf_pc, request_type, plan, strategy_iterations_completed,
                   final_report_created, finished, wf_error>>
    /\ UNCHANGED <<agentVars, sandboxVars, hostVars, parserVars, planFileVars,
                   refinementVars, llmVars>>

\* lines 381-418
DispatchStrategyRefinement ==
    /\ AwaitingDecision
    /\ MayVary
    /\ \E parsed \in Decisions("strategy_refinement") :
          LET plan_step == ConvertPlanStep(parsed.plan_step)
              refinement_summary ==
                  "Strategy refinement loop completed (3 iterations)."
          IN  /\ parsed.task # NoKey
              /\ asks' = Asked("accepted", Returned(parsed))
              /\ journal_step_counter' = journal_step_counter + 1
              /\ journal' = Append(journal,
                    StepEntry("strategy_refinement",
                              log_step_number(plan_step,
                                              journal_step_counter + 1),
                              TRUE))
              /\ plan_step_status' =
                    RecordIfInt(plan_step_status, plan_step,
                        [status |-> "success",
                         summary |-> refinement_summary])
              /\ last_action_summary' = refinement_summary
    /\ strategy_iterations_completed' = MAX_REFINEMENT_ITERATIONS
    /\ wf_status' = "executing"
    /\ decision_index' = decision_index + 1
    /\ attempts' = 0
    /\ writer_result' = NoRet
    /\ wf_varied' = wf_varied + 1
    /\ UNCHANGED <<wf_pc, request_type, plan, final_report_created, finished,
                   report_file, wf_error>>
    /\ UNCHANGED <<agentVars, sandboxVars, hostVars, parserVars, planFileVars,
                   refinementVars, llmVars>>

\* lines 438-440 and 471-472: the success the controller records for a writer
\* dispatch, given the success of the writer's own result and report_exists
WriterSuccess_selfreported(reported, report_exists) == reported
WriterSuccess(reported, report_exists) == report_exists

\* lines 420-477; writes: whether the writer saved final_report.md; reported:
\* the success of the dict the writer's execute_task returned
DispatchWriter ==
    /\ AwaitingDecision
    /\ MayVary
    /\ \E parsed \in Decisions("writer"), writes \in BOOLEAN,
          reported \in BOOLEAN :
          LET plan_step == ConvertPlanStep(parsed.plan_step)
              report_exists == report_file \/ writes
              success == WriterSuccess(reported, report_exists)
              writer_summary ==
                  IF report_exists
                  THEN "Final report created at final_report.md."
                  ELSE "Writer completed task but final_report.md not found."
              entry == StepEntry("writer",
                                 log_step_number(plan_step,
                                                 journal_step_counter + 1),
                                 success)
          IN  /\ parsed.task # NoKey
              /\ writer_result' = [returned |-> TRUE, success |-> reported]
              /\ asks' = Asked("accepted", Returned(parsed))
              /\ report_file' = report_exists
              /\ journal_step_counter' = journal_step_counter + 1
              /\ journal' =
                    IF report_exists
                    THEN journal \o <<entry, [kind |-> "final_report"]>>
                    ELSE Append(journal, entry)
              /\ final_report_created' = (final_report_created \/ report_exists)
              /\ plan_step_status' =
                    RecordIfInt(plan_step_status, plan_step,
                        [status |-> IF success THEN "success" ELSE "failed",
                         summary |-> writer_summary])
              /\ last_action_summary' = writer_summary
    /\ wf_status' = "executing"
    /\ decision_index' = decision_index + 1
    /\ attempts' = 0
    /\ wf_varied' = wf_varied + 1
    /\ UNCHANGED <<wf_pc, request_type, plan, strategy_iterations_completed,
                   finished, wf_error>>
    /\ UNCHANGED <<agentVars, sandboxVars, hostVars, parserVars, planFileVars,
                   refinementVars, llmVars>>

\* the else clause of the for loop, lines 478-493, and the return of line 504
DecisionsExhausted ==
    /\ wf_pc = "deciding"
    /\ decision_index = max_decisions
    /\ wf_status' = "failed"
    /\ journal' = Append(journal, [kind |-> "incomplete"])
    /\ wf_pc' = "returned"
    /\ UNCHANGED <<request_type, plan, plan_step_status, last_action_summary,
                   strategy_iterations_completed, final_report_created,
                   journal_step_counter, decision_index, finished, attempts,
                   asks,
                   report_file, writer_result, wf_error, wf_varied>>
    /\ UNCHANGED <<agentVars, sandboxVars, hostVars, parserVars, planFileVars,
                   refinementVars, llmVars>>

\* the engine before execute_workflow is called, in a workspace directory
\* that may be left from an earlier run of the same session id
InitWorkflow ==
    /\ wf_pc = "idle"
    /\ request_type \in RequestTypes
    /\ wf_status = "none"
    /\ plan = NoPlan
    /\ plan_step_status = <<>>
    /\ last_action_summary = ""
    /\ strategy_iterations_completed = 0
    /\ final_report_created = FALSE
    /\ journal_step_counter = 0
    /\ decision_index = 0
    /\ finished = FALSE
    /\ journal = <<>>
    /\ attempts = 0
    /\ asks = <<>>
    /\ report_file \in BOOLEAN
    /\ writer_result = NoRet
    /\ wf_error = NoKey
    /\ wf_varied = 0
    /\ AgentIdle
    /\ SandboxIdle
    /\ HostIdle
    /\ ParserIdle
    /\ PlanFileIdle
    /\ RefinementIdle
    /\ LLMIdle

NextWorkflow ==
    \/ StartWorkflow
    \/ ReplyRejected
    \/ DecisionFails
    \/ DecisionInvalid
    \/ Finish
    \/ DispatchPlanner
    \/ DispatchExecutor
    \/ DispatchStrategyRefinement
    \/ DispatchWriter
    \/ DecisionsExhausted

SpecWorkflow == InitWorkflow /\ [][NextWorkflow]_vars

\* every await of execute_workflow (scanner, orchestrator, delegated agent)
\* returns, so the step the run is waiting for is eventually taken
SpecWorkflowLive ==
    InitWorkflow /\ [][NextWorkflow]_vars /\ WF_vars(NextWorkflow)

(***************************************************************************)
(* The host (main.py) and the session directories of WORKSPACE_ROOT        *)
(***************************************************************************)
Runs == 1..MaxRuns

\* the characters of a request: str.isalnum() holds for the letters only
Alnum == {"a", "b", "c"}

\* a request of 31 characters that ends with last
LongRequest(last) == [i \in 1..31 |-> IF i = 31 THEN last ELSE "a"]

\* the user_request texts, as character sequences
UserRequests ==
    {<<"a", " ", "b">>, <<"a", "_", "b">>, <<"b">>,
     LongRequest("b"), LongRequest("c")}

\* the session_id argument of the request; NoKey: None
SessionIdArgs == {NoKey, "s1"}

\* line 217: "".join(c if c.isalnum() else "_" for c in user_request[:30])
safe_name(user_request) ==
    [i \in 1..(IF Len(user_request) < 30 THEN Len(user_request) ELSE 30) |->
        IF user_request[i] \in Alnum THEN user_request[i] ELSE "_"]

\* lines 214-218: the session id the run works under.  timestamp is the
\* strftime text of datetime.now(), which changes once a second.
SessionId(arg, user_request, timestamp) ==
    IF arg = NoKey
    THEN [given |-> FALSE, timestamp |-> timestamp,
          name |-> safe_name(user_request)]
    ELSE [given |-> TRUE, timestamp |-> 0, name |-> <<arg>>]

\* a directory as mkdir creates it; plan_json is the run whose plan plan.json
\* holds (0: no such file)
EmptyDir == [main_journal |-> <<>>, plan_json |-> 0]

\* _initialize_journal: open(journal_path, 'w') and the header
_initialize_journal(dir, r) ==
    [dir EXCEPT !.main_journal = <<[run |-> r, kind |-> "header"]>>]

\* start_analysis schedules execute_workflow, whose lines 213-225 make the
\* session id, the workspace directory (mkdir exist_ok=True) and the journal
StartRun(r) ==
    /\ runs[r].pc = "none"
    /\ \E user_request \in UserRequests, arg \in SessionIdArgs :
          LET session_id == SessionId(arg, user_request, now)
              dir == IF session_id \in DOMAIN disk THEN disk[session_id]
                     ELSE EmptyDir
          IN  /\ runs' = [runs EXCEPT ![r] =
                     [pc |-> "running", user_request |-> user_request,
                      session_id |-> session_id, writes |-> 0]]
              /\ disk' = (session_id :> _initialize_journal(dir, r)) @@ disk
    /\ UNCHANGED now
    /\ UNCHANGED <<agentVars, sandboxVars, workflowVars, parserVars, planFileVars,
                   refinementVars, llmVars>>

\* _log_step_to_journal and the other writers of the journal:
\* open(journal_path, 'a')
LogStep(r) ==
    /\ runs[r].pc = "running"
    /\ runs[r].writes < MaxWrites
    /\ runs' = [runs EXCEPT ![r].writes = @ + 1]
    /\ disk' = [disk EXCEPT ![runs[r].session_id].main_journal =
                   Append(@, [run |-> r, kind |-> "step"])]
    /\ UNCHANGED now
    /\ UNCHANGED <<agentVars, sandboxVars, workflowVars, parserVars, planFileVars,
                   refinementVars, llmVars>>

\* the planner dispatch, lines 344-346: open(plan_file, 'w') and json.dump
SavePlan(r) ==
    /\ runs[r].pc = "running"
    /\ runs[r].writes < MaxWrites
    /\ runs' = [runs EXCEPT ![r].writes = @ + 1]
    /\ disk' = [disk EXCEPT ![runs[r].session_id].plan_json = r]
    /\ UNCHANGED now
    /\ UNCHANGED <<agentVars, sandboxVars, workflowVars, parserVars, planFileVars,
                   refinementVars, llmVars>>

\* execute_workflow returns
EndRun(r) ==
    /\ runs[r].pc = "running"
    /\ runs' = [runs EXCEPT ![r].pc = "done"]
    /\ UNCHANGED <<now, disk>>
    /\ UNCHANGED <<agentVars, sandboxVars, workflowVars, parserVars, planFileVars,
                   refinementVars, llmVars>>

\* a second passes
Tick ==
    /\ now < MaxClock
    /\ now' = now + 1
    /\ UNCHANGED <<runs, disk>>
    /\ UNCHANGED <<agentVars, sandboxVars, workflowVars, parserVars, planFileVars,
                   refinementVars, llmVars>>

InitHost ==
    /\ HostIdle
    /\ ParserIdle
    /\ PlanFileIdle
    /\ RefinementIdle
    /\ LLMIdle
    /\ AgentIdle
    /\ SandboxIdle
    /\ WorkflowIdle

RunStarts == \E r \in Runs : StartRun(r)
RunLogsStep == \E r \in Runs : LogStep(r)
RunSavesPlan == \E r \in Runs : SavePlan(r)
RunEnds == \E r \in Runs : EndRun(r)

NextHost ==
    \/ RunStarts
    \/ RunLogsStep
    \/ RunSavesPlan
    \/ RunEnds
    \/ Tick

SpecHost == InitHost /\ [][NextHost]_vars

(***************************************************************************)
(* OrchestratorAgent._parse_decision_response, line by line                *)
(***************************************************************************)
\* A line of a response, after strip(), by the first of the regular
\* expressions of lines 127, 132 and 144 that matches it, with the stripped
\* text that expression captures:
\*   "agent"   NEXT_AGENT: value         "step"   PLAN_STEP: value
\*   "task"    TASK: value (value may be empty)
\*   "header"  NEXT_AGENT or PLAN_STEP with nothing after it: none of the three
\*             matches, the expression of line 151 does
\*   "text"    any other line that is not empty       "blank"  an empty line
Line(kind, value) == [kind |-> kind, value |-> value]

\* the responses parsed: three well-formed ones, and others
WellFormedResponses ==
    {<<Line("agent", "executor"), Line("step", "1"), Line("task", "t")>>,
     <<Line("agent", "writer"), Line("step", "NONE"), Line("task", "t")>>,
     <<Line("agent", "planner"), Line("step", "2a"), Line("task", "u")>>}

ParsedResponses ==
    WellFormedResponses \cup
    {<<Line("agent", "executor"), Line("blank", ""), Line("task", "t")>>,
     <<Line("task", "t"), Line("text", "more"), Line("agent", "finish")>>,
     <<Line("text", "prose")>>,
     <<Line("agent", "executor"), Line("step", "7"), Line("task", "")>>,
     <<Line("task", "t"), Line("header", ""), Line("text", "more")>>}

\* lines 119-122: the locals a call starts with; last is the frame the call
\* before left, which Python has discarded
\* (mutant: the locals are kept from one call to the next)
FreshLocals_kept(last) == last
FreshLocals(last) ==
    [next_agent |-> NoKey, plan_step |-> NoStep, task_lines |-> <<>>,
     collecting_task |-> FALSE]

\* the body of the loop of lines 123-154 for one line
ParseLine(loc, line) ==
    CASE line.kind = "blank" -> loc
      [] line.kind = "agent" ->
            [loc EXCEPT !.next_agent = line.value, !.collecting_task = FALSE]
      [] line.kind = "step" ->
            [loc EXCEPT !.plan_step = ParsePlanStep(line.value),
                        !.collecting_task = FALSE]
      [] line.kind = "task" ->
            [loc EXCEPT !.task_lines = IF line.value # "" THEN <<line.value>>
                                       ELSE <<>>,
                        !.collecting_task = TRUE]
      [] OTHER ->
            IF ~loc.collecting_task THEN loc
            ELSE IF line.kind = "header"
            THEN [loc EXCEPT !.collecting_task = FALSE]
            ELSE [loc EXCEPT !.task_lines = Append(@, line.value)]

RECURSIVE ParseLines(_, _, _)
ParseLines(loc, lines, i) ==
    IF i > Len(lines) THEN loc
    ELSE ParseLines(ParseLine(loc, lines[i]), lines, i + 1)

\* lines 155-160: the dict returned; the task is the fragments that
\* "\n".join puts together, None (NoKey) when there is none
ParseResult(loc) ==
    [next_agent |-> loc.next_agent, plan_step |-> loc.plan_step,
     task |-> IF loc.task_lines = <<>> THEN <<NoKey>> ELSE loc.task_lines]

\* one call of _parse_decision_response
Parse ==
    /\ Len(parses) < MaxParses
    /\ \E response \in ParsedResponses :
          LET loc == ParseLines(FreshLocals(frame), response, 1)
          IN  /\ frame' = loc
              /\ parses' = Append(parses, [response |-> response,
                                           result |-> ParseResult(loc)])
    /\ UNCHANGED <<agentVars, sandboxVars, workflowVars, hostVars,
                   planFileVars,
                   refinementVars, llmVars>>

InitParser ==
    /\ ParserIdle
    /\ PlanFileIdle
    /\ RefinementIdle
    /\ LLMIdle
    /\ AgentIdle
    /\ SandboxIdle
    /\ WorkflowIdle
    /\ HostIdle

NextParser == Parse

SpecParser == InitParser /\ [][NextParser]_vars

(***************************************************************************)
(* plan.json: written by the planner dispatch, read by get_session_status  *)
(***************************************************************************)
\* Python values, by type
PyInt(n) == [type |-> "int", int |-> n, str |-> ""]
PyStr(t) == [type |-> "str", int |-> 0, str |-> t]
PyNone == [type |-> "NoneType", int |-> 0, str |-> ""]
PyDatetime(t) == [type |-> "datetime", int |-> t, str |-> ""]

\* the step dicts a plan can hold: the values json.loads gives the planner's
\* reply, or those of _create_default_plan
StepDicts ==
    [step_number : {PyInt(1), PyInt(2), PyStr("1"), PyNone},
     objective : {PyStr("o"), PyStr("p")}]

\* the WorkflowPlan objects (protocol.py lines 86-92) of create_plan
WorkflowPlans ==
    [plan_id : {PyStr("plan_ts")},
     user_request : {PyStr("request")},
     steps : SeqsUpTo(StepDicts, MaxSteps),
     created_at : {PyDatetime(5)}]

\* str(value), the default= of json.dump
str(value) ==
    CASE value.type = "int" -> ToString(value.int)
      [] value.type = "str" -> value.str
      [] value.type = "NoneType" -> "None"
      [] value.type = "datetime" -> "datetime " \o ToString(value.int)

\* json.dump of one value: a JSON token.  A value the encoder has no token
\* for (a datetime) goes through default=str and is written as a string.
\* (mutant: every value goes through str)
Encode_str(value) == [json |-> "string", text |-> str(value)]
Encode(value) ==
    CASE value.type = "int" -> [json |-> "number", text |-> ToString(value.int)]
      [] value.type = "str" -> [json |-> "string", text |-> value.str]
      [] value.type = "NoneType" -> [json |-> "null", text |-> "null"]
      [] OTHER -> [json |-> "string", text |-> str(value)]

\* json.load of one token
Decode(token) ==
    CASE token.json = "number" ->
            PyInt(CHOOSE n \in 0..9 : ToString(n) = token.text)
      [] token.json = "string" -> PyStr(token.text)
      [] token.json = "null" -> PyNone

\* lines 344-346: json.dump(plan.dict(), f, indent=2, default=str)
Dump(p) ==
    [exists |-> TRUE,
     plan_id |-> Encode(p.plan_id),
     user_request |-> Encode(p.user_request),
     steps |-> [i \in 1..Len(p.steps) |->
                  [step_number |-> Encode(p.steps[i].step_number),
                   objective |-> Encode(p.steps[i].objective)]],
     created_at |-> Encode(p.created_at)]

\* main.py lines 119-122: json.load(f)
Load(file) ==
    [loaded |-> TRUE,
     plan_id |-> Decode(file.plan_id),
     user_request |-> Decode(file.user_request),
     steps |-> [i \in 1..Len(file.steps) |->
                  [step_number |-> Decode(file.steps[i].step_number),
                   objective |-> Decode(file.steps[i].objective)]],
     created_at |-> Decode(file.created_at)]

\* the planner dispatch writes plan.json
WritePlanFile ==
    /\ ~plan_file.exists
    /\ plan_file' = Dump(context_plan)
    /\ UNCHANGED <<context_plan, session_plan>>
    /\ UNCHANGED <<agentVars, sandboxVars, workflowVars, hostVars,
                   parserVars, refinementVars, llmVars>>

\* get_session_status: plan stays None when plan.json does not exist
GetSessionStatus ==
    /\ ~session_plan.loaded
    /\ plan_file.exists
    /\ session_plan' = Load(plan_file)
    /\ UNCHANGED <<context_plan, plan_file>>
    /\ UNCHANGED <<agentVars, sandboxVars, workflowVars, hostVars,
                   parserVars, refinementVars, llmVars>>

InitPlanFile ==
    /\ context_plan \in WorkflowPlans
    /\ plan_file = [exists |-> FALSE]
    /\ session_plan = [loaded |-> FALSE]
    /\ AgentIdle
    /\ SandboxIdle
    /\ WorkflowIdle
    /\ HostIdle
    /\ ParserIdle
    /\ RefinementIdle
    /\ LLMIdle

NextPlanFile ==
    \/ WritePlanFile
    \/ GetSessionStatus

SpecPlanFile == InitPlanFile /\ [][NextPlanFile]_vars

(***************************************************************************)
(* The strategy_refinement handler and _execute_strategy_refinement        *)
(***************************************************************************)
\* the plan_step values a strategy_refinement decision can carry, as the
\* controller reads them
RefinementSteps == {NoStep, IntStep(7, "7")}

\* a note _execute_strategy_refinement writes to the journal by itself
Note(text, i, flag) ==
    [kind |-> "note", text |-> text, iteration |-> i, flag |-> flag]

\* an awaited call of the sub-loop: which agent, for which iteration
Call(agent, i) == [agent |-> agent, iteration |-> i]

\* line 560: whether the iteration under way is the last of the range
\* (mutant: the range holds one iteration)
LastIteration_first(i) == i >= 1
LastIteration(i) == i >= MAX_REFINEMENT_ITERATIONS

\* lines 381-390 and 558-577: the handler takes the decision, the sub-loop
\* starts, notes iteration 1 and awaits the synthesizer
StartRefinement ==
    /\ refine_pc = "idle"
    /\ refine_pc' = "synthesizer"
    /\ refine_iteration' = 1
    /\ feedback' = NoKey
    /\ refine_calls' = <<Call("synthesizer", 1)>>
    /\ refine_journal' = <<Note("iteration", 1, FALSE)>>
    /\ UNCHANGED <<refine_step, refine_counter, refine_status>>
    /\ UNCHANGED <<agentVars, sandboxVars, workflowVars, hostVars,
                   parserVars, planFileVars, llmVars>>

\* lines 574-607: generate_strategy has returned; the synthesizer note is
\* written (it says whether feedback was incorporated) and the evaluator's
\* execute_task is awaited
SynthesizerReturns ==
    /\ refine_pc = "synthesizer"
    /\ refine_pc' = "evaluator"
    /\ refine_calls' = Append(refine_calls,
                              Call("evaluator", refine_iteration))
    /\ refine_journal' = Append(refine_journal,
           Note("synthesizer", refine_iteration, feedback # NoKey))
    /\ UNCHANGED <<refine_iteration, feedback, refine_step, refine_counter,
                   refine_status>>
    /\ UNCHANGED <<agentVars, sandboxVars, workflowVars, hostVars,
                   parserVars, planFileVars, llmVars>>

\* lines 607-623: the evaluator has returned; the evaluator note says whether
\* evaluation_v{iteration}.md exists; the judger is awaited
EvaluatorReturns ==
    /\ refine_pc = "evaluator"
    /\ \E eval_report_created \in BOOLEAN :
          refine_journal' = Append(refine_journal,
              Note("evaluator", refine_iteration, eval_report_created))
    /\ refine_pc' = "judger"
    /\ refine_calls' = Append(refine_calls, Call("judger", refine_iteration))
    /\ UNCHANGED <<refine_iteration, feedback, refine_step, refine_counter,
                   refine_status>>
    /\ UNCHANGED <<agentVars, sandboxVars, workflowVars, hostVars,
                   parserVars, planFileVars, llmVars>>

\* lines 391-418 of the handler, once _execute_strategy_refinement returned:
\* the one journal step and the status of a declared integer step
LogRefinement(notes) ==
    /\ refine_counter' = refine_counter + 1
    /\ refine_journal' = Append(notes,
           StepEntry("strategy_refinement",
                     log_step_number(refine_step, refine_counter + 1),
                     TRUE))
    /\ refine_status' =
           RecordIfInt(refine_status, refine_step,
               [status |-> "success",
                summary |->
                   "Strategy refinement loop completed (3 iterations)."])

\* lines 623-646: the judger has returned; its feedback is loaded and noted
\* when feedback_v{iteration}.txt exists; then the next iteration starts, or
\* the loop is over, the completion note is written and the handler logs the
\* step
JudgerReturns ==
    /\ refine_pc = "judger"
    /\ \E feedback_exists \in BOOLEAN :
          LET text == IF feedback_exists THEN "feedback" ELSE feedback
              notes == IF feedback_exists
                       THEN Append(refine_journal,
                                Note("judger", refine_iteration, TRUE))
                       ELSE refine_journal
          IN  /\ feedback' = text
              /\ IF LastIteration(refine_iteration)
                 THEN /\ refine_pc' = "returned"
                      /\ LogRefinement(
                            Append(notes,
                                Note("complete", refine_iteration, FALSE)))
                      /\ UNCHANGED <<refine_iteration, refine_calls>>
                 ELSE /\ refine_pc' = "synthesizer"
                      /\ refine_iteration' = refine_iteration + 1
                      /\ refine_calls' = Append(refine_calls,
                            Call("synthesizer", refine_iteration + 1))
                      /\ refine_journal' = Append(notes,
                            Note("iteration", refine_iteration + 1, FALSE))
                      /\ UNCHANGED <<refine_counter, refine_status>>
    /\ UNCHANGED refine_step
    /\ UNCHANGED <<agentVars, sandboxVars, workflowVars, hostVars,
                   parserVars, planFileVars, llmVars>>

\* a strategy_refinement decision has been accepted, with or without a
\* declared step; nothing is recorded yet
InitRefinement ==
    /\ refine_pc = "idle"
    /\ refine_iteration = 0
    /\ feedback = NoKey
    /\ refine_calls = <<>>
    /\ refine_journal = <<>>
    /\ refine_step \in RefinementSteps
    /\ refine_counter = 0
    /\ refine_status = <<>>
    /\ AgentIdle
    /\ SandboxIdle
    /\ WorkflowIdle
    /\ HostIdle
    /\ ParserIdle
    /\ PlanFileIdle
    /\ LLMIdle

NextRefinement ==
    \/ StartRefinement
    \/ SynthesizerReturns
    \/ EvaluatorReturns
    \/ JudgerReturns

SpecRefinement == InitRefinement /\ [][NextRefinement]_vars

(***************************************************************************)
(* LLMClient._siliconflow_completion                                       *)
(***************************************************************************)
\* the models self.model can name: one whose name holds "deepseek", one
\* whose name does not
Models == {"deepseek-ai/DeepSeek-V3", "Qwen/Qwen2.5-72B-Instruct"}

\* "deepseek" in self.model.lower()
IsDeepseek(model) == model = "deepseek-ai/DeepSeek-V3"

\* the roles of the messages a caller passes, oldest first
MessageRoles == {"system", "user", "tool"}

\* line 216: use_text_based_tools
use_text_based_tools(model, tools) == IsDeepseek(model) /\ tools

\* lines 218-228: a message of role tool goes out as one of role user
ModifiedMessages(msgs) ==
    [k \in 1..Len(msgs) |-> IF msgs[k] = "tool" THEN "user" ELSE msgs[k]]

\* lines 230-283: the payload of the request.  instruction: the tool
\* instruction text was added to the last message; tools: the payload has
\* the keys tools and tool_choice
Payload(model, msgs, tools) ==
    LET modified == ModifiedMessages(msgs)
        text_based == use_text_based_tools(model, tools)
    IN  [messages |-> modified,
         instruction |-> /\ text_based
                         /\ modified # <<>>
                         /\ modified[Len(modified)] = "user",
         tools |-> tools /\ ~text_based]

\* how a request can end: requests.post raises, or a response with a status
\* code; a response of status 200 has a body the code can read ("message",
\* with or without tool calls) or one it cannot ("malformed")
HttpOutcomes ==
    {[raised |-> TRUE, status_code |-> 0, body |-> "none"],
     [raised |-> FALSE, status_code |-> 400, body |-> "error"],
     [raised |-> FALSE, status_code |-> 500, body |-> "error"],
     [raised |-> FALSE, status_code |-> 200, body |-> "message"],
     [raised |-> FALSE, status_code |-> 200, body |-> "tool_calls"],
     [raised |-> FALSE, status_code |-> 200, body |-> "malformed"]}

\* line 306: whether the call is made again after a response that is not 200
\* (mutant: never)
Retries_never(status_code, model, tools) == FALSE
Retries(status_code, model, tools) ==
    status_code = 400 /\ tools /\ ~use_text_based_tools(model, tools)

\* one more HTTP request of the call; the count stays at MaxRequests once
\* it has reached it
Requested(n) == IF n < MaxRequests THEN n + 1 ELSE n

\* _siliconflow_completion is entered, from chat_completion or from its own
\* line 308: lines 206-296, up to the await of the request
StartCompletion ==
    /\ sf_pc \in {"idle", "recursing"}
    /\ sf_pc' = "awaiting"
    /\ sf_payload' = Payload(sf_model, sf_messages, sf_tools)
    /\ http_requests' = Requested(http_requests)
    /\ UNCHANGED <<sf_model, sf_tools, sf_messages, rejects_tools, sf_result>>
    /\ UNCHANGED <<agentVars, sandboxVars, workflowVars, hostVars,
                   parserVars, planFileVars, refinementVars>>

\* the awaited request ends: lines 286-340.  After status 400 for a call
\* with tools that is not text-based, _siliconflow_completion is called
\* again with the arguments it was called with (lines 306-310): the same
\* payload is built and sent by the call entered.
RequestEnds ==
    /\ sf_pc = "awaiting"
    /\ \E out \in HttpOutcomes :
          /\ (rejects_tools /\ sf_payload.tools) =>
                (~out.raised /\ out.status_code = 400)
          /\ IF out.raised
             THEN /\ sf_pc' = "raised"
                  /\ sf_result' = "request failed"
                  /\ UNCHANGED <<sf_payload, http_requests>>
             ELSE IF out.status_code # 200
             THEN IF Retries(out.status_code, sf_model, sf_tools)
                  THEN /\ sf_pc' = "recursing"
                       /\ UNCHANGED <<sf_payload, http_requests, sf_result>>
                  ELSE /\ sf_pc' = "raised"
                       /\ sf_result' = "SiliconFlow API error"
                       /\ UNCHANGED <<sf_payload, http_requests>>
             ELSE IF out.body = "malformed"
             THEN /\ sf_pc' = "raised"
                  /\ sf_result' = "unreadable response"
                  /\ UNCHANGED <<sf_payload, http_requests>>
             ELSE /\ sf_pc' = "returned"
                  /\ sf_result' = out.body
                  /\ UNCHANGED <<sf_payload, http_requests>>
    /\ UNCHANGED <<sf_model, sf_tools, sf_messages, rejects_tools>>
    /\ UNCHANGED <<agentVars, sandboxVars, workflowVars, hostVars,
                   parserVars, planFileVars, refinementVars>>

\* a client of some model, about to be called with some messages, with or
\* without tools, against a backend that does or does not answer every
\* request carrying tool definitions with status 400
InitLLM ==
    /\ sf_pc = "idle"
    /\ sf_model \in Models
    /\ sf_tools \in BOOLEAN
    /\ sf_messages \in SeqsUpTo(MessageRoles, MaxMessages)
    /\ rejects_tools \in BOOLEAN
    /\ sf_payload = NoPayload
    /\ http_requests = 0
    /\ sf_result = NoKey
    /\ AgentIdle
    /\ SandboxIdle
    /\ WorkflowIdle
    /\ HostIdle
    /\ ParserIdle
    /\ PlanFileIdle
    /\ RefinementIdle

NextLLM ==
    \/ StartCompletion
    \/ RequestEnds

SpecLLM == InitLLM /\ [][NextLLM]_vars

\* every awaited request ends, by a response or by an exception of
\* requests.post (which has timeout=120)
SpecLLMLive == SpecLLM /\ WF_vars(NextLLM)

(***************************************************************************)
(* The executor handler of execute_workflow together with the              *)
(* execute_task call it awaits                                             *)
(***************************************************************************)
\* line 376: the status recorded for a result
\* (mutant: a result that ran out of iterations counts as failed)
status_flag_capfails(result) ==
    IF result.success /\ result.result # "Max iterations reached"
    THEN "success" ELSE "failed"
status_flag(result) == IF result.success THEN "success" ELSE "failed"

\* lines 299-366 in the first loop iteration: decide_next_step returns an
\* executor decision with a task; the handler calls executor.execute_task
ExecutorSelected ==
    /\ AwaitingDecision
    /\ decision_index = 0
    /\ \E parsed \in Decisions("executor") :
          /\ parsed.task # NoKey
          /\ asks' = Asked("accepted", Returned(parsed))
    /\ wf_pc' = "executor"
    /\ wf_status' = "executing"
    /\ UNCHANGED <<request_type, plan, plan_step_status, last_action_summary,
                   strategy_iterations_completed, final_report_created,
                   journal_step_counter, decision_index, finished, journal,
                   attempts, report_file, writer_result, wf_error, wf_varied>>
    /\ UNCHANGED <<agentVars, sandboxVars, hostVars, parserVars, planFileVars,
                   refinementVars, llmVars>>

\* the awaited execute_task call begins
ExecutorStarts ==
    /\ wf_pc = "executor"
    /\ StartTask

\* lines 367-379: execute_task has returned the dict ret
ExecutorReturns ==
    /\ wf_pc = "executor"
    /\ pc = "done"
    /\ ret.returned
    /\ LET plan_step == ConvertPlanStep(asks[Len(asks)].returned.plan_step)
           summary == _summarize_result(ret)
       IN  /\ journal_step_counter' = journal_step_counter + 1
           /\ journal' = Append(journal,
                 StepEntry("executor",
                           log_step_number(plan_step,
                                           journal_step_counter + 1),
                           ret.success))
           /\ plan_step_status' =
                 RecordIfInt(plan_step_status, plan_step,
                     [status |-> status_flag(ret), summary |-> summary])
           /\ last_action_summary' = summary
    /\ wf_pc' = "deciding"
    /\ decision_index' = decision_index + 1
    /\ attempts' = 0
    /\ UNCHANGED <<request_type, wf_status, plan,
                   strategy_iterations_completed, final_report_created,
                   finished, asks, report_file, writer_result, wf_error,
                   wf_varied>>
    /\ UNCHANGED <<agentVars, sandboxVars, hostVars, parserVars, planFileVars,
                   refinementVars, llmVars>>

\* before execute_workflow is called; the executor agent not yet used
InitDispatch ==
    /\ AgentIdle
    /\ SandboxIdle
    /\ WorkflowIdle
    /\ HostIdle
    /\ ParserIdle
    /\ PlanFileIdle
    /\ RefinementIdle
    /\ LLMIdle

NextDispatch ==
    \/ StartWorkflow
    \/ ExecutorSelected
    \/ ExecutorStarts
    \/ BackendResponds
    \/ MaxIterationsReached
    \/ ExecutorReturns

SpecDispatch == InitDispatch /\ [][NextDispatch]_vars

(***************************************************************************)
(* Claims about execute_task (checked under SpecAgent)                     *)
(***************************************************************************)
\* the last iteration received a response dict (the backend did not raise)
Answered == llm_calls > 0 /\ ~last_resp.raised

\* tool call i of resp is reached by the loop body: no call listed before it
\* left execute_task
Reached(resp, i) ==
    /\ i \in 1..Len(resp.tool_calls)
    /\ \A j \in 1..(i - 1) : ~EndsTask(resp.tool_calls[j])

\* the loop body reaches a finish call whose arguments are a JSON object
FinishReached(resp) ==
    \E i \in 1..Len(resp.tool_calls) :
        /\ Reached(resp, i)
        /\ resp.tool_calls[i].name = "finish"
        /\ resp.tool_calls[i].args # "bad"

\* resolving or dispatching tool call i of resp raises: the registry holds no
\* such tool, or the call's arguments are rejected
DispatchRaises(resp, i) ==
    /\ Reached(resp, i)
    /\ resp.tool_calls[i].name # "finish"
    /\ EndsTask(resp.tool_calls[i])

\* the tool calls 1..n of resp as ToolCall objects / names / observations
RECURSIVE CallsUpTo(_, _)
CallsUpTo(resp, n) ==
    IF n = 0 THEN <<>>
    ELSE Append(CallsUpTo(resp, n - 1), ToolCallOf(resp.tool_calls[n]))
RECURSIVE NamesUpTo(_, _)
NamesUpTo(resp, n) ==
    IF n = 0 THEN <<>>
    ELSE Append(NamesUpTo(resp, n - 1), resp.tool_calls[n].name)
RECURSIVE ObservationsUpTo(_, _)
ObservationsUpTo(resp, n) ==
    IF n = 0 THEN <<>>
    ELSE Append(ObservationsUpTo(resp, n - 1),
                IF resp.tool_calls[n].run = "returns"
                THEN "Tool '" \o resp.tool_calls[n].name \o "' succeeded"
                ELSE "Tool '" \o resp.tool_calls[n].name \o "' failed")

\* C1 as stated: whenever a backend response includes a tool call named
\* finish, the task returns in that same iteration with success = true and
\* finished_early = true, whatever other tool calls the response contains.
C1_FinishAnywhereReturnsSuccess ==
    (Answered /\ HasFinish(last_resp)) =>
        /\ pc = "done"
        /\ ret.success = TRUE
        /\ ret.finished_early = TRUE
        /\ ret.iterations = prev.iteration + 1

\* C1 as amended: whenever the loop body reaches a finish call with object
\* arguments (every tool call listed before it in the response was created
\* and dispatched without raising), the task returns in that same iteration
\* with success = true and finished_early = true, after no further backend
\* call, whatever the number of earlier iterations and thoughts.
C1_FinishReachedReturnsSuccess ==
    (Answered /\ FinishReached(last_resp)) =>
        /\ pc = "done"
        /\ ret.success = TRUE
        /\ ret.finished_early = TRUE
        /\ ret.iterations = prev.iteration + 1
        /\ llm_calls = prev.iteration + 1

\* C1 witness: a finish call listed after another tool call, received in the
\* fourth iteration after three thoughts, has ended the task
C1_Witness ==
    /\ pc = "done"
    /\ Answered
    /\ Len(last_resp.tool_calls) = 2
    /\ last_resp.tool_calls[1].name = "web_search"
    /\ last_resp.tool_calls[2].name = "finish"
    /\ FinishReached(last_resp)
    /\ Len(prev.thoughts) = 3
    /\ ret.finished_early = TRUE

\* C2: at whichever iteration a backend response carries no tool calls,
\* execute_task returns at once with success = true and result equal to that
\* response's text; when it is the first response the task ends after exactly
\* one backend call with iterations = 1 and no action or observation.
C2_NoToolCallsIsFinalAnswer ==
    (Answered /\ last_resp.tool_calls = <<>>) =>
        /\ pc = "done"
        /\ ret.success = TRUE
        /\ ret.result = last_resp.content
        /\ ret.iterations = prev.iteration + 1
        /\ llm_calls = prev.iteration + 1
        /\ tool_log = prev.tool_log
        /\ (prev.iteration = 0 =>
               /\ llm_calls = 1
               /\ ret.iterations = 1
               /\ ret.actions = <<>>
               /\ ret.observations = <<>>
               /\ tool_log = <<>>)

\* C2 witness: a response without tool calls and with an empty text ended the
\* task in a later iteration than the first
C2_Witness ==
    /\ pc = "done"
    /\ Answered
    /\ last_resp.tool_calls = <<>>
    /\ last_resp.content = ""
    /\ prev.iteration = 4
    /\ ret.result = ""

\* C3: when each of the max_iterations (10) backend responses requested at
\* least one non-finish tool call and nothing raised, execute_task returns
\* success = true with the result "Max iterations reached" and iterations =
\* 10; the cap never yields success = false, and no task makes more than 10
\* backend calls.
C3_CapEndsSuccessfully ==
    /\ max_iterations = 10
    /\ llm_calls <= max_iterations
    /\ (pc = "done" /\ iteration = max_iterations) =>
           /\ llm_calls = max_iterations
           /\ ret.success = TRUE
           /\ ret.result = "Max iterations reached"
           /\ ret.iterations = 10
           /\ ret.finished_early = FALSE
           /\ ret.error = NoKey
    /\ (pc = "done" /\ ret.result = "Max iterations reached") =>
           ret.success = TRUE

\* C3 witness: the task returned after ten iterations that each ran a tool
C3_Witness ==
    /\ pc = "done"
    /\ iteration = max_iterations
    /\ llm_calls = 10
    /\ Len(tool_log) >= 10
    /\ ret.result = "Max iterations reached"

\* C4: if resolving or dispatching a requested tool raises, execute_task
\* returns immediately with success = false and an error text, makes no
\* further backend or tool call, and the returned thoughts, actions and
\* observations are exactly those accumulated up to the exception.
C4_DispatchExceptionAborts ==
    \A i \in 1..Len(last_resp.tool_calls) :
        (Answered /\ DispatchRaises(last_resp, i)) =>
            /\ pc = "done"
            /\ status = "error"
            /\ ret.success = FALSE
            /\ ret.error \in {"Tool not found", "ValidationError"}
            /\ ret.result = NoKey
            /\ ret.iterations = prev.iteration + 1
            /\ llm_calls = prev.iteration + 1
            /\ tool_log = prev.tool_log \o NamesUpTo(last_resp, i - 1)
            /\ ret.thoughts = IF last_resp.content # ""
                              THEN Append(prev.thoughts, last_resp.content)
                              ELSE prev.thoughts
            /\ ret.actions = prev.actions \o
                   CallsUpTo(last_resp,
                             IF last_resp.tool_calls[i].args = "bad"
                             THEN i - 1 ELSE i)
            /\ ret.observations = prev.observations \o
                   ObservationsUpTo(last_resp, i - 1)

\* C4 witness: the second tool call of a response named a tool the registry
\* does not hold, after the first one had run and after earlier iterations
C4_Witness ==
    /\ pc = "done"
    /\ Answered
    /\ Len(last_resp.tool_calls) = 2
    /\ last_resp.tool_calls[2].name = "bogus"
    /\ DispatchRaises(last_resp, 2)
    /\ prev.iteration = 2
    /\ ret.success = FALSE
    /\ Len(ret.actions) = 4
    /\ Len(ret.observations) = 3

\* C5: a tool whose execute raises yields a ToolResult of status error; in
\* execute_task this becomes a "failed" observation appended to the message
\* sequence and the loop goes on to the next backend call: a tool-reported
\* failure never aborts the task and never by itself makes success false.
C5_ToolFailureIsObserved ==
    /\ \A i \in 1..Len(last_resp.tool_calls) :
          (Answered /\ Reached(last_resp, i)
                    /\ ~EndsTask(last_resp.tool_calls[i])
                    /\ last_resp.tool_calls[i].run = "raises") =>
              LET k == Len(prev.observations) + i
                  m == Len(prev.messages) + 2 * i
              IN  /\ Len(observations) >= k
                  /\ observations[k] = "Tool 'web_search' failed"
                  /\ Len(messages) >= m
                  /\ messages[m] = [role |-> "tool",
                                    content |-> "Tool 'web_search' failed"]
                  /\ Len(tool_log) >= Len(prev.tool_log) + i
    /\ (Answered /\ last_resp.tool_calls # <<>>
                 /\ \A i \in 1..Len(last_resp.tool_calls) :
                        ~EndsTask(last_resp.tool_calls[i])) =>
           \* no call of the response ends the task: the loop goes on
           /\ iteration = prev.iteration + 1
           /\ status \in {"thinking", "completed"}
           /\ (pc = "done" => /\ iteration = max_iterations
                              /\ ret.success = TRUE)
    /\ (pc = "done" /\ ret.success = FALSE) =>
           \/ last_resp.raised
           \/ \E i \in 1..Len(last_resp.tool_calls) :
                  Reached(last_resp, i) /\ EndsTask(last_resp.tool_calls[i])

\* C5 witness: a tool failed in one iteration and the loop has gone on to
\* later backend calls
C5_Witness ==
    /\ pc = "loop"
    /\ llm_calls >= 3
    /\ \E k \in 1..Len(observations) :
          /\ observations[k] = "Tool 'web_search' failed"
          /\ k < Len(observations)
    /\ \E m \in 1..Len(messages) :
          messages[m] = [role |-> "tool", content |-> "Tool 'web_search' failed"]

(***************************************************************************)
(* Claims about PythonExecutionTool (checked under SpecSandbox)            *)
(***************************************************************************)
\* C6: execute makes at most max_attempts generate-and-run attempts; the
\* attempt history never holds more than max_attempts entries; and after the
\* first attempt whose return code is zero no further attempt is made.
C6_AttemptsBounded ==
    /\ max_attempts = 10
    /\ gen_calls <= max_attempts
    /\ launches <= max_attempts
    /\ Len(attempt_summaries) <= max_attempts
    /\ Len(attempt_summaries) <= launches
    /\ \A k \in 1..Len(attempt_summaries) :
          attempt_summaries[k].return_code = 0 =>
              /\ k = Len(attempt_summaries)
              /\ launches = k
              /\ gen_calls = k
              /\ sb_pc = "returned"

\* C6 witness: execute returned after max_attempts attempts that all failed
C6_Witness ==
    /\ sb_pc = "returned"
    /\ Len(attempt_summaries) = max_attempts
    /\ launches = max_attempts
    /\ ~sb_ret.execution.success
    /\ sb_ret.execution.total_attempts = 10

\* C7: a sandbox attempt is marked success exactly when the subprocess exit
\* status is zero and the last line of its stdout parses as the summary
\* record; an attempt whose last stdout line is missing or not parseable is
\* never marked success.
C7_SuccessIffZeroExitAndSummary ==
    \A k \in 1..Len(attempt_summaries) :
        attempt_summaries[k].success <=>
            (proc_log[k].exit = 0 /\ proc_log[k].last_line = "summary")

C9_TimedOutSubprocessKilled ==
    sb_pc # "running" => proc # "running"

(***************************************************************************)
(* Claims about execute_workflow (checked under SpecWorkflow)              *)
(***************************************************************************)
\* C10: in every reachable state of execute_workflow, each key of
\* plan_step_status is the step_number of a step of the current plan: no
\* status is recorded while no plan exists or for a step number the current
\* plan does not contain, whatever step number the orchestrator declares.
C10_StatusKeysAreCurrentPlanSteps ==
    \A k \in DOMAIN plan_step_status :
        plan.exists /\ k \in StepNumbers(plan)

\* C11: every plan that a planner dispatch installs has step numbers that are
\* pairwise distinct and non-decreasing in list order, for plans parsed from
\* the backend's JSON reply as well as for the built-in default plans.
C11_StepNumbersDistinctAndOrdered ==
    plan.exists =>
        \A i, j \in 1..Len(plan.steps) :
            i < j => plan.steps[i] < plan.steps[j]

\* C12: decide_next_step asks the orchestrator persona at most three times
\* per decision, every retry carrying the format-correction text; if all
\* three replies give no extractable selector or a delegated selector with an
\* empty task, it raises after the third attempt and returns no decision.
C12_AtMostThreeAsksThenError ==
    /\ attempts <= 3
    /\ Len(asks) <= 3
    /\ \A i \in 1..Len(asks) :
          /\ asks[i].prompt = IF i = 1 THEN "base_prompt"
                              ELSE "base_prompt + format correction"
          /\ asks[i].reply = "accepted" => i = Len(asks)
    /\ (/\ Len(asks) = 3
        /\ \A i \in 1..3 : asks[i].reply \in {"no selector", "no task"})
       => /\ wf_pc = "raised"
          /\ attempts = 3
          /\ wf_status = "failed"
          /\ wf_error = "Orchestrator failed to provide a valid NEXT_AGENT after 3 attempts."

\* C12 witness: three replies, none accepted (no task, no selector, no task),
\* and decide_next_step has raised
C12_Witness ==
    /\ Len(asks) = 3
    /\ asks[1].reply = "no task"
    /\ asks[2].reply = "no selector"
    /\ asks[3].reply = "no task"
    /\ wf_pc = "raised"
    /\ decision_index = 1

\* the latest ask of the decide_next_step call under way or just ended
LastAsk == asks[Len(asks)]

LastEntry == journal[Len(journal)]

\* C13 as stated: a decision whose selector is planner, executor,
\* strategy_refinement or writer and whose task text is missing is never
\* returned to the controller and dispatched; only finish is accepted
\* without a task.
C13_OnlyFinishWithoutTask ==
    \A i \in 1..Len(asks) :
        (asks[i].reply = "accepted" /\ asks[i].returned.task = NoKey)
            => asks[i].returned.next_agent = "finish"

\* C13 as amended: a reply whose selector is executor, strategy_refinement,
\* writer or an unknown name and whose task text is missing is never returned
\* as a decision nor dispatched: decide_next_step rejects it and asks again,
\* and raises the fatal error when it was the third reply.  The selectors
\* planner and finish are accepted without a task, and a planner decision
\* without a task is dispatched like one with a task.
C13_TaskNeededExceptPlannerAndFinish ==
    Len(asks) > 0 =>
        /\ LastAsk.reply = "accepted" =>
              /\ LastAsk.returned.task = NoKey =>
                    LastAsk.returned.next_agent \in {"planner", "finish"}
              /\ LastAsk.returned.next_agent = "planner" =>
                    /\ LastEntry.kind = "planning"
                    /\ plan.exists
                    /\ wf_pc = "deciding"
              /\ LastAsk.returned.next_agent = "finish" =>
                    wf_status = "completed"
        /\ LastAsk.reply = "no task" =>
              /\ LastAsk.returned = NoDecision
              /\ attempts = Len(asks)
              /\ \/ wf_pc = "deciding" /\ attempts < 3
                 \/ wf_pc = "raised" /\ attempts = 3

\* C13 witness: an executor reply without a task was rejected, and the
\* planner reply without a task that followed was dispatched
C13_Witness ==
    /\ Len(asks) = 2
    /\ asks[1].reply = "no task"
    /\ asks[2].reply = "accepted"
    /\ asks[2].returned.next_agent = "planner"
    /\ asks[2].returned.task = NoKey
    /\ plan.exists
    /\ LastEntry.kind = "planning"

\* C14: whenever a run aborts because the decision retries are exhausted, the
\* selector is unknown, the task of a delegated agent is missing, or 40
\* decisions were made without finish, the workflow status is failed and a
\* diagnostic entry is the last entry of the journal when control leaves
\* execute_workflow.
C14_AbortIsFailedAndJournalled ==
    /\ wf_pc = "raised" =>
          /\ wf_status = "failed"
          /\ wf_error \in
                {"Orchestrator failed to provide a valid NEXT_AGENT after 3 attempts.",
                 "Orchestrator selected unknown agent.",
                 "Orchestrator did not provide TASK description for delegated agent."}
          /\ LastEntry = [kind |-> "failed", error |-> wf_error]
    /\ (wf_pc = "returned" /\ ~finished) =>
          /\ decision_index = max_decisions
          /\ wf_status = "failed"
          /\ LastEntry = [kind |-> "incomplete"]

\* C14 witness: after a planner dispatch the orchestrator selected an unknown
\* agent, and the run has aborted
C14_Witness ==
    /\ wf_pc = "raised"
    /\ wf_error = "Orchestrator selected unknown agent."
    /\ plan.exists
    /\ Len(journal) = 3
    /\ LastEntry.kind = "failed"

\* the decide_next_step calls made so far: one per iteration completed, and
\* the one of the iteration that is under way or that ended the loop
DecisionsRequested ==
    decision_index
    + (IF \/ wf_pc = "raised"
          \/ finished
          \/ (wf_pc = "deciding" /\ attempts > 0)
       THEN 1 ELSE 0)

Ended == wf_pc \in {"returned", "raised"}

C15_Safety ==
    /\ max_decisions = 40
    /\ decision_index <= max_decisions
    /\ DecisionsRequested <= max_decisions
    /\ Ended => wf_status \in {"completed", "failed"}
    /\ (Ended /\ ~finished) => wf_status = "failed"
    /\ (Ended /\ decision_index = max_decisions) =>
          (wf_status = "failed" /\ ~finished)

\* C15: execute_workflow requests at most 40 decisions; provided every
\* delegated call returns, the run terminates, and when it ends the status is
\* completed or failed, being failed whenever 40 decisions pass without a
\* finish selector.
C15_BoundedDecisionsAndTermination == []C15_Safety /\ <>Ended

\* C15 witness: 40 decisions were dispatched, two of them planner dispatches,
\* none was finish, and the run has returned as failed
C15_Witness ==
    /\ wf_pc = "returned"
    /\ decision_index = max_decisions
    /\ journal_step_counter = max_decisions - 2
    /\ plan.exists
    /\ wf_status = "failed"

\* C16: selecting finish sets the workflow status to completed and ends the
\* loop: afterwards no agent is dispatched, no further decision is requested
\* and the status never leaves completed; a run that reached failed never
\* changes status again.  (No step of execute_workflow is possible once the
\* status is completed or failed.)
C16_CompletedAndFailedAreFinal ==
    /\ finished <=> wf_status = "completed"
    /\ finished => wf_pc = "returned"
    /\ wf_status \in {"completed", "failed"} =>
          (Ended /\ ~ENABLED NextWorkflow)

\* C16 witness: finish was selected right after a planner dispatch
C16_Witness ==
    /\ finished
    /\ wf_status = "completed"
    /\ wf_pc = "returned"
    /\ plan.exists
    /\ decision_index = 1

\* the decision just dispatched was a planner decision
PlannerDispatched ==
    /\ Len(asks) > 0
    /\ LastAsk.reply = "accepted"
    /\ LastAsk.returned.next_agent = "planner"
    /\ LastEntry.kind = "planning"

\* C17: a planner dispatch replaces the plan as a whole and empties
\* plan_step_status, so that right after it every step of the new plan is
\* pending and no status recorded earlier survives; no other dispatch changes
\* the plan.
C17_PlannerReplacesPlanAndResets ==
    [][/\ (journal' # journal /\ PlannerDispatched') =>
            /\ plan'.exists
            /\ plan'.steps = LastEntry'.steps
            /\ plan'.steps \in
                  {a.steps : a \in {r \in PlannerReplies : r.json}}
                  \cup {_create_default_plan(request_type)}
            /\ DOMAIN plan_step_status' = {}
       /\ plan' # plan => (journal' # journal /\ PlannerDispatched')
      ]_vars

\* C17 witness: an executor dispatch recorded a status for declared step 7,
\* and the planner dispatch that followed installed steps 1, 2 and left no
\* status
C17_Witness ==
    /\ PlannerDispatched
    /\ Len(journal) = 3
    /\ journal[2].kind = "step"
    /\ journal[2].step_num = 7
    /\ plan.steps = <<1, 2>>
    /\ DOMAIN plan_step_status = {}

\* the step a dispatched decision declared, as the controller reads it
DeclaredStep == ConvertPlanStep(LastAsk.returned.plan_step)

\* an executor dispatch has just been made and its result had success=false
ExecutorFailed ==
    /\ Len(asks) > 0
    /\ LastAsk.reply = "accepted"
    /\ LastAsk.returned.next_agent = "executor"
    /\ LastEntry.kind = "step"
    /\ ~LastEntry.success

\* C18: when an executor dispatch for declared step k returns success=false,
\* the controller records step k as failed, leaves the recorded status of
\* every other step unchanged, appends a journal entry for the dispatch, and
\* goes on with the decision loop; the run is not aborted.
C18_FailedExecutorStepIsRecorded ==
    [][(journal' # journal /\ ExecutorFailed' /\ IsInt(DeclaredStep')) =>
          LET k == DeclaredStep'.value
          IN  /\ DOMAIN plan_step_status' = DOMAIN plan_step_status \cup {k}
              /\ plan_step_status'[k].status = "failed"
              /\ \A j \in DOMAIN plan_step_status \ {k} :
                    plan_step_status'[j] = plan_step_status[j]
              /\ journal' = Append(journal, LastEntry')
              /\ LastEntry'.agent = "executor"
              /\ LastEntry'.step_num = k
              /\ plan' = plan
              /\ wf_pc' = "deciding"
              /\ wf_status' = "executing"
              /\ decision_index' = decision_index + 1
      ]_vars

\* C18 witness: step 1 was recorded as success, then the executor dispatch
\* for step 7 failed; both are in the journal and the run awaits a decision
C18_Witness ==
    /\ ExecutorFailed
    /\ DeclaredStep = IntStep(7, "7")
    /\ DOMAIN plan_step_status = {1, 7}
    /\ plan_step_status[1].status = "success"
    /\ plan_step_status[7].status = "failed"
    /\ Len(journal) = 3
    /\ journal[2].success
    /\ wf_pc = "deciding"

\* a writer dispatch has just been made
WriterDispatched ==
    /\ Len(asks) > 0
    /\ LastAsk.reply = "accepted"
    /\ LastAsk.returned.next_agent = "writer"
    /\ writer_result.returned

\* C19: for a writer dispatch, the success recorded in the journal entry and,
\* when a step is declared, in the step status is true exactly when
\* final_report.md exists in the workspace after the writer returns, whatever
\* success the writer itself reported.
C19_WriterSuccessIsReportExistence ==
    [][(journal' # journal /\ WriterDispatched') =>
          LET entry == journal'[Len(journal) + 1]
          IN  /\ entry.kind = "step"
              /\ entry.agent = "writer"
              /\ entry.success <=> report_file'
              /\ IsInt(DeclaredStep') =>
                    /\ DeclaredStep'.value \in DOMAIN plan_step_status'
                    /\ plan_step_status'[DeclaredStep'.value].status =
                          IF report_file' THEN "success" ELSE "failed"
              /\ final_report_created' = (final_report_created \/ report_file')
      ]_vars

\* C19 witness: the writer reported success for declared step 1 without
\* saving final_report.md, and the dispatch is recorded as failed
C19_Witness ==
    /\ WriterDispatched
    /\ writer_result.success
    /\ ~report_file
    /\ DeclaredStep = IntStep(1, "1")
    /\ plan_step_status[1].status = "failed"
    /\ LastEntry.kind = "step"
    /\ ~LastEntry.success

\* journal is an initial part of journal'
Extends(old, new) ==
    /\ Len(old) <= Len(new)
    /\ \A i \in 1..Len(old) : new[i] = old[i]

\* C20: the run journal is append-only: once it holds an entry no later
\* action removes or rewrites it; and every dispatch (planner, executor,
\* strategy_refinement, writer) appends a structured entry carrying objective,
\* status, reasoning trace, actions, observations and files created.
C20_JournalAppendOnlyStructured ==
    [][/\ Extends(journal, journal')
       /\ decision_index' = decision_index + 1 =>
             /\ Len(journal') > Len(journal)
             /\ {"objective", "status", "thoughts", "actions",
                 "observations", "files_created"}
                   \subseteq Sections(journal'[Len(journal) + 1])
      ]_vars

(***************************************************************************)
(* Claims about concurrency and identity                                   *)
(***************************************************************************)
\* the sandbox subprocesses that are running
InFlight == abandoned + (IF proc = "running" THEN 1 ELSE 0)

\* C21: within one run at most one sandbox subprocess is in flight at any
\* time: while an attempt of execute waits for its subprocess no other
\* subprocess is running, and a new attempt starts only after the previous
\* subprocess has completed.
C21_AtMostOneInFlight ==
    /\ InFlight <= 1
    /\ sb_pc = "running" => abandoned = 0

Started(r) == runs[r].pc # "none"

\* the session directory run r works in
Workspace(r) == disk[runs[r].session_id]

\* C22: two runs scheduled concurrently never share mutable state: each has
\* its own workspace directory, journal and plan snapshot, so the journal of
\* a run holds only what that run wrote, from its own header on, and plan.json
\* is the plan of that run, also when both runs are started without a session
\* id for the same request at the same time, or with the same session id.
C22_RunsShareNoFiles ==
    \A r1, r2 \in Runs :
        (r1 # r2 /\ Started(r1) /\ Started(r2)) =>
            /\ runs[r1].session_id # runs[r2].session_id
            /\ \A i \in 1..Len(Workspace(r1).main_journal) :
                  Workspace(r1).main_journal[i].run = r1
            /\ Workspace(r1).plan_json \in {0, r1}

\* C23: every ToolCall created has a call_id different from that of every
\* other ToolCall of the run, including two calls created back to back for
\* one backend response.
C23_CallIdsUnique ==
    /\ Len(call_ids) = Len(actions)
    /\ \A i, j \in 1..Len(call_ids) : i # j => call_ids[i] # call_ids[j]

(***************************************************************************)
(* Further claims about PythonExecutionTool (checked under SpecSandbox)    *)
(***************************************************************************)
\* C24: execute returns the record of the last attempt made: if attempt k is
\* the first with return code zero the result has success=true and
\* total_attempts=k; if all max_attempts attempts fail the result is the
\* record of attempt max_attempts with success=false.
C24_ReturnsLastAttempt ==
    LET n == Len(attempt_summaries)
    IN  /\ sb_pc = "returned" =>
              /\ n >= 1
              /\ launches = n
              /\ ~sb_ret.raised
              /\ sb_ret.execution.attempt = n
              /\ sb_ret.execution.total_attempts = n
              /\ sb_ret.execution.attempts = attempt_summaries
              /\ sb_ret.execution.return_code = attempt_summaries[n].return_code
              /\ sb_ret.execution.files_created =
                     attempt_summaries[n].files_created
              /\ sb_ret.execution.generated_code =
                     attempt_summaries[n].generated_code
              /\ sb_ret.execution.success <=>
                     attempt_summaries[n].return_code = 0
              /\ ~sb_ret.execution.success => n = max_attempts
              /\ \A k \in 1..(n - 1) : attempt_summaries[k].return_code # 0
        /\ \A k \in 1..n :
              attempt_summaries[k].return_code = 0 =>
                  /\ sb_pc = "returned"
                  /\ sb_ret.execution.success
                  /\ sb_ret.execution.total_attempts = k
        /\ (n = max_attempts /\ attempt_summaries[n].return_code # 0) =>
              /\ sb_pc = "returned"
              /\ ~sb_ret.execution.success
              /\ sb_ret.execution.attempt = max_attempts

\* C24 witness: the first attempt failed, the second ended with return code
\* zero and created summary.csv; execute returned the second attempt
C24_Witness ==
    /\ sb_pc = "returned"
    /\ Len(attempt_summaries) = 2
    /\ ~attempt_summaries[1].success
    /\ sb_ret.execution.success
    /\ sb_ret.execution.total_attempts = 2
    /\ sb_ret.execution.files_created = <<"summary.csv">>

\* the counters _persist_generated_code can arrive at: the workspace holds
\* at most two of the names at first, and every call of execute adds at most one
PersistCounters == 0..(2 + MaxVariedAttempts)

\* the names _persist_generated_code can give a file
PersistNames == {PersistName(c) : c \in PersistCounters}

\* C25: the generated code is written to the workspace only when the final
\* attempt succeeded, only that attempt's code is written, and the write
\* never overwrites an existing file: while the target name exists a counter
\* suffix is advanced until an unused name is found.
C25_PersistOnlyOnSuccessNoOverwrite ==
    [][LET written == (ws_files' \ ws_files) \cap PersistNames
       IN  /\ (sb_pc = "running" /\ sb_pc' = "returned") =>
                LET artifacts == sb_ret'.execution.artifacts
                IN  /\ Len(artifacts) = IF sb_ret'.execution.success THEN 1
                                        ELSE 0
                    /\ written = Range(artifacts)
                    /\ sb_ret'.execution.generated_code = generation.code
                    /\ sb_ret'.execution.attempt = Len(attempt_summaries')
                    /\ \A name \in Range(artifacts) :
                          /\ name \notin ws_files
                          /\ \E c \in PersistCounters :
                                /\ name = PersistName(c)
                                /\ \A b \in 0..(c - 1) :
                                      PersistName(b) \in ws_files
           /\ ~(sb_pc = "running" /\ sb_pc' = "returned") => written = {}
           /\ ws_files \subseteq ws_files'
      ]_vars

\* C25 witness: in a workspace that held the first two names, a failed attempt
\* left no file and the successful second attempt was saved under the third
C25_Witness ==
    /\ sb_pc = "returned"
    /\ sb_ret.execution.success
    /\ sb_ret.execution.total_attempts = 2
    /\ sb_ret.execution.artifacts = <<PersistName(2)>>
    /\ {PersistName(0), PersistName(1), PersistName(2)} \subseteq ws_files

(***************************************************************************)
(* Further claims about execute_workflow (checked under SpecWorkflow)      *)
(***************************************************************************)
\* the selectors the controller knows
KnownSelectors ==
    {"planner", "executor", "strategy_refinement", "writer", "finish"}

\* C26: every decision that decide_next_step returns to the controller is
\* fully valid: its selector is one of planner, executor, strategy_refinement,
\* writer, finish and its step field is an integer or absent; a reply that
\* cannot be parsed into such a decision leads to a retry or an error, never
\* to a partially filled decision being returned.
C26_ReturnedDecisionsAreValid ==
    \A i \in 1..Len(asks) :
        LET returned == asks[i].returned
        IN  IF asks[i].reply = "accepted"
            THEN /\ returned.next_agent \in KnownSelectors
                 /\ IsInt(returned.plan_step) \/ returned.plan_step = NoStep
            ELSE returned = NoDecision

\* the agent the dispatch of this step goes to
Dispatched(agent) ==
    /\ decision_index' = decision_index + 1
    /\ asks'[Len(asks')].returned.next_agent = agent

\* C27: the controller enforces ordering preconditions at the decision step:
\* the writer is dispatched only when at least one plan step has status
\* success, and strategy_refinement only when a plan exists; a writer decision
\* made with zero successful steps is refused and the writer is not run.
C27_DispatchPreconditions ==
    [][/\ Dispatched("writer") =>
             \E k \in DOMAIN plan_step_status :
                 plan_step_status[k].status = "success"
       /\ Dispatched("strategy_refinement") => plan.exists
      ]_vars

(***************************************************************************)
(* Claims about the tools offered (checked under SpecAgentOfType)          *)
(***************************************************************************)
\* C28: on every backend call of execute_task the tool definitions offered
\* are exactly those of the tools the registry's allow-list
\* (get_tools_for_agent) gives for the agent's type, plus the synthetic finish
\* tool; finish is offered on every iteration, also to agents whose
\* allow-list is empty.
C28_OfferedIsAllowListPlusFinish ==
    llm_calls > 0 =>
        /\ Range(offered) =
               Range(get_tools_for_agent(agent_type)) \cup {"finish"}
        /\ offered[Len(offered)] = "finish"

(***************************************************************************)
(* Claims about _parse_decision_response (checked under SpecParser)        *)
(***************************************************************************)
\* the triple a well-formed three-line response spells out
Spelled(response) ==
    [next_agent |-> response[1].value,
     plan_step |-> ParsePlanStep(response[2].value),
     task |-> <<response[3].value>>]

\* the dicts returned so far depend on the response alone
C29_SameInputSameTriple ==
    /\ \A i, j \in 1..Len(parses) :
          parses[i].response = parses[j].response =>
              parses[i].result = parses[j].result
    /\ \A i \in 1..Len(parses) :
          parses[i].response \in WellFormedResponses =>
              parses[i].result = Spelled(parses[i].response)

\* C29: _parse_decision_response is a pure function of its input: parsing
\* the same well-formed three-line response (NEXT_AGENT, PLAN_STEP, TASK) any
\* number of times, with whatever other responses parsed in between, yields
\* the same (agent, step, task) triple, the one the three lines spell out,
\* and a call changes no state of the orchestrator agent or of the run.
C29_ParseIsPure ==
    /\ []C29_SameInputSameTriple
    /\ [][parses' # parses => UNCHANGED <<agentVars, workflowVars>>]_vars

\* C29 witness: a well-formed response was parsed, then a response without a
\* PLAN_STEP line, then the first one again
C29_Witness ==
    /\ Len(parses) = 3
    /\ parses[1].response =
          <<Line("agent", "executor"), Line("step", "1"), Line("task", "t")>>
    /\ parses[2].response =
          <<Line("agent", "executor"), Line("blank", ""), Line("task", "t")>>
    /\ parses[3].response = parses[1].response
    /\ parses[3].result.plan_step = IntStep(1, "1")
    /\ parses[2].result.plan_step = NoStep

(***************************************************************************)
(* Claims about plan.json (checked under SpecPlanFile)                     *)
(***************************************************************************)
\* C30: writing a plan to plan.json as the planner dispatch does and loading
\* that file back yields the same steps in the same order, with the same
\* step_number and objective for every step.
C30_PlanRoundTrip ==
    session_plan.loaded =>
        /\ Len(session_plan.steps) = Len(context_plan.steps)
        /\ \A i \in 1..Len(context_plan.steps) :
              /\ session_plan.steps[i].step_number =
                     context_plan.steps[i].step_number
              /\ session_plan.steps[i].objective =
                     context_plan.steps[i].objective

\* C30 witness: a plan whose step numbers are the integer 1 and the string
\* "1" was written and loaded back; its created_at came back as a string
C30_Witness ==
    /\ session_plan.loaded
    /\ Len(context_plan.steps) = 2
    /\ session_plan.steps[1].step_number = PyInt(1)
    /\ session_plan.steps[2].step_number = PyStr("1")
    /\ session_plan.steps[1].objective # session_plan.steps[2].objective
    /\ session_plan.created_at # context_plan.created_at

(***************************************************************************)
(* Claims about the sandbox's report of created files (SpecSandbox)        *)
(***************************************************************************)
\* C31: for every sandbox attempt, whether the generated code finished
\* normally or raised, files_created holds exactly the names that are in the
\* workspace directory after the code ran and were not there before it ran.
C31_FilesCreatedIsDirectoryDiff ==
    \A i \in 1..Len(attempt_summaries) :
        Range(attempt_summaries[i].files_created) = Range(proc_log[i].written)

(***************************************************************************)
(* Claims about the record of an executor dispatch (SpecWorkflow)          *)
(***************************************************************************)
\* an executor dispatch has just been made
ExecutorDispatched ==
    /\ Len(asks) > 0
    /\ LastAsk.reply = "accepted"
    /\ LastAsk.returned.next_agent = "executor"
    /\ LastEntry.kind = "step"

\* the status flag of line 376 for the result the journal entry reports
StatusFlag(entry) == IF entry.success THEN "success" ELSE "failed"

\* C32 as stated: an executor dispatch records its outcome, status and
\* summary, under the declared step number when the decision declares an
\* integer step and under the fallback counter when it declares none, so that
\* after every executor dispatch the status record holds the outcome under one
\* of the two keys.
C32_OutcomeUnderDeclaredOrFallbackKey ==
    [][(journal' # journal /\ ExecutorDispatched') =>
          LET key == IF IsInt(DeclaredStep') THEN DeclaredStep'.value
                     ELSE journal_step_counter'
          IN  /\ key \in DOMAIN plan_step_status'
              /\ plan_step_status'[key].status = StatusFlag(LastEntry')
              /\ plan_step_status'[key].summary = last_action_summary'
      ]_vars

\* C32 (amended): every executor dispatch increases the fallback counter by
\* one and appends one journal entry carrying its status, keyed by the
\* declared step number when the decision declares an integer step and by the
\* counter otherwise; the status-and-summary record is written only for a
\* declared integer step, and without one the status record is left as it was
\* and the summary is kept as the last action summary only.
C32_JournalKeyedStatusOnlyDeclared ==
    [][(journal' # journal /\ ExecutorDispatched') =>
          /\ journal_step_counter' = journal_step_counter + 1
          /\ journal' = Append(journal, LastEntry')
          /\ LastEntry'.agent = "executor"
          /\ last_action_summary' \in
                {_summarize_result(r) :
                    r \in {x \in ExecutorResults :
                              x.success = LastEntry'.success}}
          /\ IF IsInt(DeclaredStep')
             THEN /\ LastEntry'.step_num = DeclaredStep'.value
                  /\ DeclaredStep'.value \in DOMAIN plan_step_status'
                  /\ plan_step_status'[DeclaredStep'.value] =
                        [status |-> StatusFlag(LastEntry'),
                         summary |-> last_action_summary']
             ELSE /\ LastEntry'.step_num = journal_step_counter'
                  /\ plan_step_status' = plan_step_status
      ]_vars

\* C32 witness: a dispatch that declared step 7 was followed by one that
\* declared none; the journal holds them under 7 and under the counter 2, the
\* status record holds step 7 only
C32_Witness ==
    /\ ExecutorDispatched
    /\ DeclaredStep = NoStep
    /\ journal_step_counter = 2
    /\ Len(journal) = 3
    /\ journal[2].step_num = 7
    /\ journal[3].step_num = 2
    /\ DOMAIN plan_step_status = {7}

(***************************************************************************)
(* Claims about the strategy refinement sub-loop (SpecRefinement)          *)
(***************************************************************************)
\* the calls of MAX_REFINEMENT_ITERATIONS iterations, each synthesizer,
\* evaluator, judger
RefinementOrder ==
    [k \in 1..(3 * MAX_REFINEMENT_ITERATIONS) |->
        Call(IF k % 3 = 1 THEN "synthesizer"
             ELSE IF k % 3 = 2 THEN "evaluator" ELSE "judger",
             (k + 2) \div 3)]

\* the journal steps ("## Step" entries) among the dispatch's journal lines
RefinementSteps_logged ==
    {k \in 1..Len(refine_journal) : refine_journal[k].kind = "step"}

C33_Order ==
    /\ Len(refine_calls) <= Len(RefinementOrder)
    /\ refine_calls = SubSeq(RefinementOrder, 1, Len(refine_calls))
    /\ refine_pc \in {"synthesizer", "evaluator", "judger"} =>
          /\ refine_calls # <<>>
          /\ refine_calls[Len(refine_calls)] =
                 Call(refine_pc, refine_iteration)
          /\ RefinementSteps_logged = {}
          /\ refine_status = <<>>
    /\ refine_pc = "returned" =>
          /\ refine_calls = RefinementOrder
          /\ refine_iteration = 3
          /\ Cardinality(RefinementSteps_logged) = 1
          /\ refine_journal[Len(refine_journal)].kind = "step"
          /\ refine_counter = 1
          /\ Cardinality(DOMAIN refine_status) <= 1

\* C33: a strategy_refinement dispatch runs exactly MAX_REFINEMENT_ITERATIONS
\* (3) iterations, each calling synthesizer, evaluator, judger in that order,
\* every call starting only when the call before it has returned (so iteration
\* i+1 starts after the judger of iteration i returned), and the whole
\* sub-loop is recorded as one journal step and at most one step status.
C33_ThreeOrderedIterationsOneStep ==
    /\ []C33_Order
    /\ [][refine_calls' # refine_calls =>
            /\ Len(refine_calls') = Len(refine_calls) + 1
            /\ refine_pc' = refine_calls'[Len(refine_calls')].agent
            /\ refine_calls # <<>> =>
                  refine_pc = refine_calls[Len(refine_calls)].agent
         ]_vars

\* C33 witness: the dispatch declared step 7 and has returned after nine
\* calls; the judger's feedback of the second iteration was found
C33_Witness ==
    /\ refine_pc = "returned"
    /\ Len(refine_calls) = 9
    /\ refine_calls[7] = Call("synthesizer", 3)
    /\ refine_step = IntStep(7, "7")
    /\ DOMAIN refine_status = {7}
    /\ refine_journal[Len(refine_journal)].step_num = 7
    /\ \E k \in 1..Len(refine_journal) :
          refine_journal[k] = Note("judger", 2, TRUE)

(***************************************************************************)
(* Claims about the state summary handed to the orchestrator               *)
(* (SpecWorkflow)                                                          *)
(***************************************************************************)
\* lines 286-298: the state summary execute_workflow builds at the head of a
\* loop iteration, from its locals as they stand
StateSummary ==
    _build_state_summary(
        wf_status,
        IF plan.exists THEN Len(plan.steps) ELSE 0,
        Cardinality({k \in DOMAIN plan_step_status :
                        plan_step_status[k].status = "success"}),
        strategy_iterations_completed,
        final_report_created,
        decision_index)

\* C34: the deliverable-existence flag ("Final report created") of the state
\* summary handed to the orchestrator is Yes exactly when final_report.md
\* exists in the workspace at the time the summary is built, whichever agent
\* created the file.
C34_ReportFlagIsFileExistence ==
    AwaitingDecision =>
        (StateSummary.final_report_created = "Yes" <=> report_file)

(***************************************************************************)
(* Claims about the tools an agent executes (SpecAgentOfType)              *)
(***************************************************************************)
\* C35: an agent never executes a tool outside the set it was offered: a
\* requested tool call that names a registered tool absent from the agent's
\* allow-list (and is not finish) is not dispatched.
C35_ExecutedToolsWereOffered ==
    \A k \in 1..Len(tool_log) : tool_log[k] \in Range(offered)

(***************************************************************************)
(* Claims about chat_completion on the siliconflow path (SpecLLMLive)      *)
(***************************************************************************)
\* C36: every chat_completion call on the SiliconFlow path ends, by
\* returning a response or by raising, after a bounded number of HTTP
\* requests, also when the backend answers every request that carries tool
\* definitions with status 400.
C36_CompletionEnds == <>(sf_pc \in {"returned", "raised"})

\* C37: in every state summary handed to the orchestrator, the number of plan
\* steps reported as completed is at most the total number of steps of the
\* current plan.
C37_CompletedAtMostTotal ==
    AwaitingDecision =>
        StateSummary.plan_steps_completed <= StateSummary.plan_total_steps

(***************************************************************************)
(* Claims about an executor dispatch and its task (SpecDispatch)           *)
(***************************************************************************)
\* the executor dispatch has been recorded by the controller
DispatchRecorded == wf_pc = "deciding" /\ decision_index = 1 /\ ret.returned

\* how the task of the dispatch ended
EndedByCap ==
    /\ ret.result = "Max iterations reached"
    /\ ret.iterations = max_iterations
    /\ llm_calls = max_iterations
    /\ ~ret.finished_early

EndedByFinish == ret.finished_early

EndedByFinalAnswer ==
    /\ ret.success
    /\ ~ret.finished_early
    /\ Len(last_resp.tool_calls) = 0

\* C38: an executor dispatch that ends by hitting the iteration cap is
\* recorded by the controller as status success for its declared step, exactly
\* as a dispatch that ended with a finish call or a final answer is.
C38_CapIsRecordedAsSuccess ==
    (DispatchRecorded /\ IsInt(DeclaredStep)) =>
        /\ DeclaredStep.value \in DOMAIN plan_step_status
        /\ (EndedByCap \/ EndedByFinish \/ EndedByFinalAnswer) =>
              /\ plan_step_status[DeclaredStep.value].status = "success"
              /\ LastEntry.success
              /\ LastEntry.step_num = DeclaredStep.value

\* C38 witness: the task ran ten iterations without finish or final answer
\* and step 7 is recorded as success
C38_Witness ==
    /\ DispatchRecorded
    /\ EndedByCap
    /\ DeclaredStep = IntStep(7, "7")
    /\ plan_step_status[7].status = "success"
    /\ Len(thoughts) = max_iterations

(***************************************************************************)
(* Claims about a code-generation reply without code (SpecSandbox)         *)
(***************************************************************************)
\* execute raised because _generate_code found no content or no code block
GenerationRefused ==
    /\ sb_ret.returned
    /\ sb_ret.raised
    /\ sb_ret.error \in
          {ExceptClause("Code generation returned empty content"),
           ExceptClause("Could not extract Python code block from generation response")}

C39_Refused ==
    GenerationRefused =>
        /\ sb_pc = "raised"
        /\ gen_calls >= 1
        /\ Len(attempt_summaries) = gen_calls - 1
        /\ launches = gen_calls - 1
        /\ Len(proc_log) = gen_calls - 1
        /\ proc # "running"
        /\ ~script_file
        /\ attempt_idx = gen_calls

\* C39: if a code-generation reply is empty or contains no fenced code block,
\* PythonExecutionTool.execute raises at once: that generation is not entered
\* in the attempt history, no subprocess is started for it, and the remaining
\* attempts of the call are not made.
C39_NoCodeRaisesAtOnce ==
    /\ []C39_Refused
    /\ [][(GenerationRefused /\ sb_pc' # "idle") =>
             UNCHANGED <<sb_pc, attempt_idx, attempt_summaries, gen_calls,
                         launches, proc_log, sb_ret>>
         ]_vars

\* C39 witness: the second generation of a call gave prose without a code
\* block; one attempt is in the history, one subprocess was started, eight
\* attempts were left
C39_Witness ==
    /\ GenerationRefused
    /\ sb_ret.error =
          ExceptClause("Could not extract Python code block from generation response")
    /\ gen_calls = 2
    /\ attempt_idx = 2
    /\ Len(attempt_summaries) = 1
    /\ launches = 1
    /\ attempt_idx < max_attempts

(***************************************************************************)
(* Claims about the tool calls of one response (SpecAgentListed)           *)
(***************************************************************************)
\* the tools run while the latest response was handled, in order
RunInLastIteration ==
    SubSeq(tool_log, Len(prev.tool_log) + 1, Len(tool_log))

\* the index of the first finish call of resp
FirstFinish(resp) ==
    CHOOSE i \in 1..Len(resp.tool_calls) :
        /\ resp.tool_calls[i].name = "finish"
        /\ \A j \in 1..(i - 1) : resp.tool_calls[j].name # "finish"

\* the index of the first tool call of resp at which the loop body leaves
\* execute_task, or the length of the list plus one
FirstLeaving(resp) ==
    IF \E i \in 1..Len(resp.tool_calls) : EndsTask(resp.tool_calls[i])
    THEN CHOOSE i \in 1..Len(resp.tool_calls) :
            /\ EndsTask(resp.tool_calls[i])
            /\ \A j \in 1..(i - 1) : ~EndsTask(resp.tool_calls[j])
    ELSE Len(resp.tool_calls) + 1

\* C40 as stated: within one backend response, the tool calls listed before a
\* finish call are executed in listed order before the task returns, and the
\* tool calls listed after the finish call are never executed.
C40_BeforeFinishRunAfterNever ==
    (Answered /\ HasFinish(last_resp)) =>
        /\ pc = "done"
        /\ RunInLastIteration =
               NamesUpTo(last_resp, FirstFinish(last_resp) - 1)

C40_RunUpToLeaving ==
    Answered =>
        /\ RunInLastIteration =
               NamesUpTo(last_resp, FirstLeaving(last_resp) - 1)
        /\ FinishReached(last_resp) =>
              /\ pc = "done"
              /\ ret.finished_early
              /\ RunInLastIteration =
                     NamesUpTo(last_resp, FirstFinish(last_resp) - 1)
        /\ (HasFinish(last_resp) /\ ~FinishReached(last_resp)) =>
              /\ pc = "done"
              /\ ~ret.success

\* C40 (amended): the tool calls of a response are handled in listed order,
\* each one executed unless its resolution or dispatch raises; at the first
\* call that raises the task returns with success=false, and neither that
\* call nor any call listed after it (a finish call included) is executed.
\* When the finish call is reached, every call listed before it has been
\* executed, in listed order, and the task returns; the calls listed after
\* the finish call are never executed, and no tool runs once the task has
\* returned.
C40_HandledInOrderUntilLeaving ==
    /\ []C40_RunUpToLeaving
    /\ [][pc = "done" => tool_log' = tool_log]_vars

\* C40 witness: a response listing web_search, file_saver, finish ended the
\* task after the two tools ran in that order
C40_Witness ==
    /\ pc = "done"
    /\ Answered
    /\ Len(last_resp.tool_calls) = 3
    /\ NamesUpTo(last_resp, 3) = <<"web_search", "file_saver", "finish">>
    /\ RunInLastIteration = <<"web_search", "file_saver">>
    /\ ret.finished_early

====
